---- MODULE Spec2Model ----
(***************************************************************************)
(* Model of the sequential IEEE document parser (src/document_parser.py).  *)
(* A document is a sequence of blocks (PDF) or paragraphs (DOCX); six      *)
(* extraction stages scan it one after the other, each stage a loop over   *)
(* block indices.  One loop iteration of a stage is one step of the model. *)
(* Texts are strings, examined character by character as the regular       *)
(* expressions of the source examine them.                                 *)
(***************************************************************************)
EXTENDS Integers, Sequences, FiniteSets, TLC

(***************************************************************************)
(* Bounds of the model.                                                    *)
(***************************************************************************)
\* longest block sequence of a whole-pipeline run
MaxBlocks == 4
\* longest block sequence given to a single stage started at any cursor
MaxStageBlocks == 4

(***************************************************************************)
(* Characters and strings (Python str methods used by the parser).         *)
(***************************************************************************)
Min(a, b) == IF a < b THEN a ELSE b

\* the character at position i (1-based), "" outside the string
Char(s, i) == IF i >= 1 /\ i <= Len(s) THEN SubSeq(s, i, i) ELSE ""

UpperLetters == "ABCDEFGHIJKLMNOPQRSTUVWXYZ"

LowerLetters == "abcdefghijklmnopqrstuvwxyz"

Digits == "0123456789"

\* the characters of string s as a set
CharsOf(s) == {SubSeq(s, k, k) : k \in 1..Len(s)}

\* position of character c in string s, 0 when absent
RECURSIVE IndexIn(_, _, _)
IndexIn(s, c, k) ==
    IF k > Len(s) THEN 0
    ELSE IF SubSeq(s, k, k) = c THEN k
    ELSE IndexIn(s, c, k + 1)

UpperSet == CharsOf(UpperLetters)

LowerSet == CharsOf(LowerLetters)

DigitSet == CharsOf(Digits)

\* the value of a decimal digit
DigitValue == [c \in DigitSet |-> IndexIn(Digits, c, 1) - 1]

\* the lower-case letter of an upper-case letter
ToLower == [c \in UpperSet |-> SubSeq(LowerLetters, IndexIn(UpperLetters, c, 1),
                                      IndexIn(UpperLetters, c, 1))]

IsSpace(c) == c \in {" ", "\t", "\n", "\r"}

IsDigit(c) == c \in DigitSet

IsUpper(c) == c \in UpperSet

IsLower(c) == c \in LowerSet

IsAlpha(c) == IsUpper(c) \/ IsLower(c)

\* \w of the re module (ASCII)
IsWord(c) == IsAlpha(c) \/ IsDigit(c) \/ c = "_"

\* \b at position p: between character p-1 and character p
WordBoundary(s, p) == IsWord(Char(s, p - 1)) # IsWord(Char(s, p))

\* needle in haystack
Contains(s, w) ==
    \E k \in 1..(Len(s) - Len(w) + 1) : SubSeq(s, k, k + Len(w) - 1) = w

LowerChar(c) == IF c \in UpperSet THEN ToLower[c] ELSE c

\* str.lower()
RECURSIVE Lower(_)
Lower(s) ==
    IF s = "" THEN ""
    ELSE LowerChar(Char(s, 1)) \o Lower(SubSeq(s, 2, Len(s)))

RECURSIVE LStrip(_)
LStrip(s) ==
    IF s = "" THEN ""
    ELSE IF IsSpace(Char(s, 1)) THEN LStrip(SubSeq(s, 2, Len(s)))
    ELSE s

RECURSIVE RStrip(_)
RStrip(s) ==
    IF s = "" THEN ""
    ELSE IF IsSpace(Char(s, Len(s))) THEN RStrip(SubSeq(s, 1, Len(s) - 1))
    ELSE s

\* str.strip()
Strip(s) == RStrip(LStrip(s))

\* str.startswith(), also the meaning of re.match with a literal pattern
StartsWith(s, p) == Len(s) >= Len(p) /\ SubSeq(s, 1, Len(p)) = p

\* re.match of the literal (lower-case) pattern p on s.lower()
LowerStartsWith(s, p) == Len(s) >= Len(p) /\ Lower(SubSeq(s, 1, Len(p))) = p

\* sep.join(lines)
RECURSIVE Join(_, _)
Join(lines, sep) ==
    IF lines = <<>> THEN ""
    ELSE IF Len(lines) = 1 THEN lines[1]
    ELSE lines[1] \o sep \o Join(Tail(lines), sep)

\* int(digits) for a string of decimal digits
RECURSIVE StrToInt(_)
StrToInt(d) ==
    IF d = "" THEN 0
    ELSE 10 * StrToInt(SubSeq(d, 1, Len(d) - 1))
         + DigitValue[Char(d, Len(d))]

\* str(n) of an f-string, n >= 0
RECURSIVE IntToStr(_)
IntToStr(n) ==
    IF n < 10 THEN Char(Digits, n + 1)
    ELSE IntToStr(n \div 10) \o Char(Digits, (n % 10) + 1)

(***************************************************************************)
(* Regular-expression primitives: each returns the position just after the *)
(* longest run it can take starting at position p (greedy quantifier).     *)
(***************************************************************************)
RECURSIVE RunDigits(_, _)
RunDigits(s, p) ==
    IF p <= Len(s) /\ IsDigit(Char(s, p)) THEN RunDigits(s, p + 1) ELSE p

RECURSIVE RunSpaces(_, _)
RunSpaces(s, p) ==
    IF p <= Len(s) /\ IsSpace(Char(s, p)) THEN RunSpaces(s, p + 1) ELSE p

\* [IVX]+ under re.IGNORECASE
RECURSIVE RunRoman(_, _)
RunRoman(s, p) ==
    IF p <= Len(s) /\ LowerChar(Char(s, p)) \in {"i", "v", "x"}
    THEN RunRoman(s, p + 1) ELSE p

\* .+ : the dot matches every character except the newline
RECURSIVE RunDot(_, _)
RunDot(s, p) ==
    IF p <= Len(s) /\ Char(s, p) # "\n" THEN RunDot(s, p + 1) ELSE p

NoMatch == [matched |-> FALSE, g1 |-> "", g2 |-> ""]

Match(a, b) == [matched |-> TRUE, g1 |-> a, g2 |-> b]

\* the tail  \s+(.+)  of a pattern, tried at position p: the whitespace run
\* is greedy and gives characters back until the dot can take one
RECURSIVE SpacesThenDot(_, _, _, _)
SpacesThenDot(s, g1, p, q) ==
    IF q <= p THEN NoMatch
    ELSE IF RunDot(s, q) > q THEN Match(g1, SubSeq(s, q, RunDot(s, q) - 1))
    ELSE SpacesThenDot(s, g1, p, q - 1)

\* the tail  \s+([^0-9].+)  tried at position p
RECURSIVE SpacesThenNonDigitDot(_, _, _, _)
SpacesThenNonDigitDot(s, g1, p, q) ==
    IF q <= p THEN NoMatch
    ELSE IF q <= Len(s) /\ ~IsDigit(Char(s, q)) /\ RunDot(s, q + 1) > q + 1
         THEN Match(g1, SubSeq(s, q, RunDot(s, q + 1) - 1))
    ELSE SpacesThenNonDigitDot(s, g1, p, q - 1)

\* the tail  \s*(.+)  tried at position p
RECURSIVE OptSpacesThenDot(_, _, _, _)
OptSpacesThenDot(s, g1, p, q) ==
    IF q < p THEN NoMatch
    ELSE IF RunDot(s, q) > q THEN Match(g1, SubSeq(s, q, RunDot(s, q) - 1))
    ELSE OptSpacesThenDot(s, g1, p, q - 1)

\* re.match(r'^([IVX]+)\.\s+(.+)', text, re.IGNORECASE)
MatchRoman(text) ==
    LET e == RunRoman(text, 1)
    IN  IF e > 1 /\ Char(text, e) = "."
        THEN SpacesThenDot(text, SubSeq(text, 1, e - 1), e + 1,
                           RunSpaces(text, e + 1))
        ELSE NoMatch

\* re.match(r'^(\d+)\.\s+([^0-9].+)', text, re.IGNORECASE)
MatchNumber(text) ==
    LET e == RunDigits(text, 1)
    IN  IF e > 1 /\ Char(text, e) = "."
        THEN SpacesThenNonDigitDot(text, SubSeq(text, 1, e - 1), e + 1,
                                   RunSpaces(text, e + 1))
        ELSE NoMatch

\* re.match(r'^([A-Z])\.\s+(.+)', text, re.IGNORECASE)
MatchLetter(text) ==
    IF Len(text) >= 2 /\ IsAlpha(Char(text, 1)) /\ Char(text, 2) = "."
    THEN SpacesThenDot(text, Char(text, 1), 3, RunSpaces(text, 3))
    ELSE NoMatch

\* the loop over section_patterns: the first pattern that matches wins
MatchSectionHeader(text) ==
    IF MatchRoman(text).matched THEN MatchRoman(text)
    ELSE IF MatchNumber(text).matched THEN MatchNumber(text)
    ELSE MatchLetter(text)

\* re.match(r'^(references|bibliography)', text.lower())
MatchReferencesHeader(text) ==
    \/ LowerStartsWith(text, "references")
    \/ LowerStartsWith(text, "bibliography")

\* re.match(r'^\[(\d+)\]\s*(.+)', text)
MatchRefMarker(text) ==
    LET e == RunDigits(text, 2)
    IN  IF Char(text, 1) = "[" /\ e > 2 /\ Char(text, e) = "]"
        THEN OptSpacesThenDot(text, SubSeq(text, 2, e - 1), e + 1,
                              RunSpaces(text, e + 1))
        ELSE NoMatch

(***************************************************************************)
(* Blocks.  A PDF block is [text, page, top, size]; a DOCX paragraph is    *)
(* [text, runs, pic] with runs a sequence of [size, bold] (size 0: the run *)
(* declares no size) and pic the presence of a picture element.            *)
(* Python indices are 0-based: block i of the source is blocks[i + 1].     *)
(***************************************************************************)
At(blocks, i) == blocks[i + 1]

(***************************************************************************)
(* Title stage.                                                            *)
(***************************************************************************)
\* [IVX\d]+ (case-sensitive)
RECURSIVE RunRomanDigit(_, _)
RunRomanDigit(s, p) ==
    IF p <= Len(s) /\ (Char(s, p) \in {"I", "V", "X"} \/ IsDigit(Char(s, p)))
    THEN RunRomanDigit(s, p + 1) ELSE p

\* re.match(r'^[IVX\d]+\.', text)
MatchNumberingPrefix(text) ==
    LET e == RunRomanDigit(text, 1)
    IN  e > 1 /\ Char(text, e) = "."

_is_title_block(block, all_blocks) ==
    IF block.page > 0 THEN FALSE
    ELSE IF block.size < 14 THEN FALSE
    ELSE IF MatchNumberingPrefix(Strip(block.text)) THEN FALSE
    ELSE IF Lower(Strip(block.text)) \in {"abstract", "introduction", "keywords"}
         THEN FALSE
    ELSE TRUE

_is_title_paragraph(para) ==
    LET text == Strip(para.text)
        has_large_font == \E r \in 1..Len(para.runs) : para.runs[r].size > 14
        has_bold == \E r \in 1..Len(para.runs) : para.runs[r].bold
    IN  IF Len(text) < 5 THEN FALSE
        ELSE IF MatchNumberingPrefix(text) THEN FALSE
        ELSE has_large_font \/ has_bold

TitleInit(start_index) ==
    [start_index |-> start_index, i |-> start_index,
     current_index |-> start_index, title_lines |-> <<>>, brk |-> FALSE]

\* the for loop of the title stage is over (range exhausted or break)
TitleLoopDone(blocks, f) ==
    f.brk \/ f.i >= Min(f.start_index + 5, Len(blocks))

\* TitleStepBlocks that moves current_index past a blank block too
TitleStepBlocksConsumesBlank(blocks, f) ==
    LET block == At(blocks, f.i)
        text == Strip(block.text)
    IN  IF text = "" THEN [f EXCEPT !.current_index = f.i + 1, !.i = @ + 1]
        ELSE IF _is_title_block(block, blocks)
             THEN [f EXCEPT !.title_lines = Append(@, text),
                            !.current_index = f.i + 1, !.i = @ + 1]
        ELSE [f EXCEPT !.brk = TRUE]

\* one iteration of the loop of _extract_title_from_blocks
TitleStepBlocks(blocks, f) ==
    LET block == At(blocks, f.i)
        text == Strip(block.text)
    IN  IF text = "" THEN [f EXCEPT !.i = @ + 1]
        ELSE IF _is_title_block(block, blocks)
             THEN [f EXCEPT !.title_lines = Append(@, text),
                            !.current_index = f.i + 1, !.i = @ + 1]
        ELSE [f EXCEPT !.brk = TRUE]

\* one iteration of the loop of _extract_title_from_docx
TitleStepDocx(paragraphs, f) ==
    LET para == At(paragraphs, f.i)
        text == Strip(para.text)
    IN  IF text = "" THEN [f EXCEPT !.i = @ + 1]
        ELSE IF _is_title_paragraph(para)
             THEN [f EXCEPT !.title_lines = Append(@, text),
                            !.current_index = f.i + 1, !.i = @ + 1]
        ELSE [f EXCEPT !.brk = TRUE]

\* title = ' '.join(title_lines)
TitleValue(f) == Join(f.title_lines, " ")

(***************************************************************************)
(* Author stage.                                                           *)
(***************************************************************************)
RECURSIVE RunLower(_, _)
RunLower(s, p) ==
    IF p <= Len(s) /\ IsLower(Char(s, p)) THEN RunLower(s, p + 1) ELSE p

\* [A-Za-z0-9._%+-]
IsEmailLocal(c) == IsAlpha(c) \/ IsDigit(c) \/ c \in {".", "_", "%", "+", "-"}

\* [A-Za-z0-9.-]
IsEmailDomain(c) == IsAlpha(c) \/ IsDigit(c) \/ c \in {".", "-"}

\* [A-Z|a-z]
IsEmailTld(c) == IsAlpha(c) \/ c = "|"

RECURSIVE RunEmailLocal(_, _)
RunEmailLocal(s, p) ==
    IF p <= Len(s) /\ IsEmailLocal(Char(s, p)) THEN RunEmailLocal(s, p + 1)
    ELSE p

RECURSIVE RunEmailDomain(_, _)
RunEmailDomain(s, p) ==
    IF p <= Len(s) /\ IsEmailDomain(Char(s, p)) THEN RunEmailDomain(s, p + 1)
    ELSE p

RECURSIVE RunEmailTld(_, _)
RunEmailTld(s, p) ==
    IF p <= Len(s) /\ IsEmailTld(Char(s, p)) THEN RunEmailTld(s, p + 1)
    ELSE p

\* the ends e (position just after the match) the e-mail pattern
\*   \b[A-Za-z0-9._%+-]+@[A-Za-z0-9.-]+\.[A-Z|a-z]{2,}\b
\* can reach when it starts at position a, as pairs <<d, e>> with d the
\* position of the dot before the top-level domain
EmailEnds(s, a) ==
    LET k == RunEmailLocal(s, a)
        m == RunEmailDomain(s, k + 1)
    IN  IF WordBoundary(s, a) /\ k > a /\ Char(s, k) = "@"
        THEN {de \in ((k + 2)..(m - 1)) \X (1..(Len(s) + 1)) :
                 /\ Char(s, de[1]) = "."
                 /\ de[2] >= de[1] + 3
                 /\ de[2] <= RunEmailTld(s, de[1] + 1)
                 /\ WordBoundary(s, de[2])}
        ELSE {}

\* the end of the match the regex engine returns at a (0: no match): the
\* domain is greedy, so the last possible dot, then the longest tld
EmailAt(s, a) ==
    LET ends == EmailEnds(s, a)
    IN  IF ends = {} THEN 0
        ELSE LET d == CHOOSE x \in {de[1] : de \in ends} :
                          \A y \in {de[1] : de \in ends} : y <= x
                 es == {de[2] : de \in {q \in ends : q[1] = d}}
             IN  CHOOSE x \in es : \A y \in es : y <= x

\* the tail  \s+[A-Z][a-z]+\b  tried at position x; 0 when it fails
NameTail(s, x) ==
    LET y == RunSpaces(s, x)
        z == RunLower(s, y + 1)
    IN  IF y > x /\ IsUpper(Char(s, y)) /\ z > y + 1 /\ ~IsWord(Char(s, z))
        THEN z ELSE 0

\* \b[A-Z][a-z]+\s+[A-Z][a-z]+\b at position a; 0 when it fails
PlainNameAt(s, a) ==
    LET x == RunLower(s, a + 1)
    IN  IF WordBoundary(s, a) /\ IsUpper(Char(s, a)) /\ x > a + 1
        THEN NameTail(s, x) ELSE 0

\* \b([A-Z][a-z]+(?:\s+[A-Z]\.?)?\s+[A-Z][a-z]+)\b at position a; 0 when it
\* fails.  The optional middle initial is tried first.
NameAt(s, a) ==
    LET x == RunLower(s, a + 1)
        y == RunSpaces(s, x)
        withDot == IF y > x /\ IsUpper(Char(s, y)) /\ Char(s, y + 1) = "."
                   THEN NameTail(s, y + 2) ELSE 0
        withInitial == IF y > x /\ IsUpper(Char(s, y))
                       THEN NameTail(s, y + 1) ELSE 0
    IN  IF WordBoundary(s, a) /\ IsUpper(Char(s, a)) /\ x > a + 1
        THEN IF withDot # 0 THEN withDot
             ELSE IF withInitial # 0 THEN withInitial
             ELSE NameTail(s, x)
        ELSE 0

\* re.findall(email pattern, s) from position p on
RECURSIVE FindAllEmails(_, _)
FindAllEmails(s, p) ==
    IF p > Len(s) THEN <<>>
    ELSE IF EmailAt(s, p) # 0
         THEN <<SubSeq(s, p, EmailAt(s, p) - 1)>>
              \o FindAllEmails(s, EmailAt(s, p))
    ELSE FindAllEmails(s, p + 1)

\* re.findall(name_pattern, s) from position p on
RECURSIVE FindAllNames(_, _)
FindAllNames(s, p) ==
    IF p > Len(s) THEN <<>>
    ELSE IF NameAt(s, p) # 0
         THEN <<SubSeq(s, p, NameAt(s, p) - 1)>>
              \o FindAllNames(s, NameAt(s, p))
    ELSE FindAllNames(s, p + 1)

_looks_like_author_info(text) ==
    IF \E a \in 1..Len(text) : EmailAt(text, a) # 0 THEN TRUE
    ELSE IF \E a \in 1..Len(text) : PlainNameAt(text, a) # 0 THEN TRUE
    ELSE IF \E keyword \in {"university", "institute", "department",
                            "college", "lab"} : Contains(Lower(text), keyword)
         THEN TRUE
    ELSE FALSE

\* the affiliation loop of _parse_author_text: first line with a keyword
RECURSIVE FirstAffiliation(_)
FirstAffiliation(lines) ==
    IF lines = <<>> THEN ""
    ELSE IF \E keyword \in {"university", "institute", "department",
                            "college"} : Contains(Lower(lines[1]), keyword)
         THEN lines[1]
    ELSE FirstAffiliation(Tail(lines))

\* _parse_author_text that pairs with zip(names, emails): an author only for
\* each name that has an e-mail
_parse_author_text_zip(lines) ==
    LET full_text == Join(lines, " ")
        emails == FindAllEmails(full_text, 1)
        names == FindAllNames(full_text, 1)
    IN  [i \in 1..Min(Len(names), Len(emails)) |->
            [name |-> names[i],
             email |-> emails[i],
             affiliation |-> FirstAffiliation(lines)]]

_parse_author_text(lines) ==
    LET full_text == Join(lines, " ")
        emails == FindAllEmails(full_text, 1)
        names == FindAllNames(full_text, 1)
    IN  [i \in 1..Len(names) |->
            [name |-> names[i],
             email |-> IF i <= Len(emails) THEN emails[i] ELSE "",
             affiliation |-> FirstAffiliation(lines)]]

\* re.match(r'^(abstract|introduction|i\.|1\.)', text.lower())
MatchAuthorStop(text) ==
    \E w \in {"abstract", "introduction", "i.", "1."} :
        LowerStartsWith(text, w)

AuthorsInit(start_index) ==
    [start_index |-> start_index, i |-> start_index,
     current_index |-> start_index, author_text_lines |-> <<>>,
     brk |-> FALSE]

AuthorsLoopDone(blocks, f) ==
    f.brk \/ f.i >= Min(f.start_index + 10, Len(blocks))

\* AuthorsStepBlocks that scans on after the author lines instead of breaking
AuthorsStepBlocksNoBreak(blocks, f) ==
    LET text == Strip(At(blocks, f.i).text)
    IN  IF text = "" THEN [f EXCEPT !.i = @ + 1]
        ELSE IF MatchAuthorStop(text) THEN [f EXCEPT !.brk = TRUE]
        ELSE IF _looks_like_author_info(text)
             THEN [f EXCEPT !.author_text_lines = Append(@, text),
                            !.current_index = f.i + 1, !.i = @ + 1]
        ELSE [f EXCEPT !.i = @ + 1]

\* one iteration of the loop of _extract_authors_from_blocks
AuthorsStepBlocks(blocks, f) ==
    LET text == Strip(At(blocks, f.i).text)
    IN  IF text = "" THEN [f EXCEPT !.i = @ + 1]
        ELSE IF MatchAuthorStop(text) THEN [f EXCEPT !.brk = TRUE]
        ELSE IF _looks_like_author_info(text)
             THEN [f EXCEPT !.author_text_lines = Append(@, text),
                            !.current_index = f.i + 1, !.i = @ + 1]
        ELSE IF f.author_text_lines # <<>> THEN [f EXCEPT !.brk = TRUE]
        ELSE [f EXCEPT !.i = @ + 1]

\* AuthorsStepDocx that takes a blank paragraph after the author lines as the
\* end of the author block
AuthorsStepDocxBlankStops(paragraphs, f) ==
    LET text == Strip(At(paragraphs, f.i).text)
    IN  IF text = ""
        THEN IF f.author_text_lines # <<>> THEN [f EXCEPT !.brk = TRUE]
             ELSE [f EXCEPT !.i = @ + 1]
        ELSE IF MatchAuthorStop(text) THEN [f EXCEPT !.brk = TRUE]
        ELSE IF _looks_like_author_info(text)
             THEN [f EXCEPT !.author_text_lines = Append(@, text),
                            !.current_index = f.i + 1, !.i = @ + 1]
        ELSE IF f.author_text_lines # <<>> THEN [f EXCEPT !.brk = TRUE]
        ELSE [f EXCEPT !.i = @ + 1]

\* one iteration of the loop of _extract_authors_from_docx
AuthorsStepDocx(paragraphs, f) ==
    LET text == Strip(At(paragraphs, f.i).text)
    IN  IF text = "" THEN [f EXCEPT !.i = @ + 1]
        ELSE IF MatchAuthorStop(text) THEN [f EXCEPT !.brk = TRUE]
        ELSE IF _looks_like_author_info(text)
             THEN [f EXCEPT !.author_text_lines = Append(@, text),
                            !.current_index = f.i + 1, !.i = @ + 1]
        ELSE IF f.author_text_lines # <<>> THEN [f EXCEPT !.brk = TRUE]
        ELSE [f EXCEPT !.i = @ + 1]

AuthorsValue(f) == _parse_author_text(f.author_text_lines)

(***************************************************************************)
(* Abstract stage.                                                         *)
(***************************************************************************)
\* re.match(r'^abstract', text.lower())
MatchAbstractHeader(text) == LowerStartsWith(text, "abstract")

\* re.match(r'^(keywords?|index terms|introduction|i\.|1\.)', text.lower())
MatchAbstractStop(text) ==
    \E w \in {"keyword", "index terms", "introduction", "i.", "1."} :
        LowerStartsWith(text, w)

AbstractInit(start_index) ==
    [start_index |-> start_index, i |-> start_index,
     current_index |-> start_index, abstract_lines |-> <<>>,
     found_abstract_header |-> FALSE, brk |-> FALSE]

\* AbstractLoopDone of a loop that runs to the end of the blocks
AbstractLoopDoneAtEnd(blocks, f) == f.brk \/ f.i >= Len(blocks)

AbstractLoopDone(blocks, f) ==
    f.brk \/ f.i >= Min(f.start_index + 30, Len(blocks))

\* AbstractStepBlocks that moves current_index past the stopping block
AbstractStepBlocksConsumesStop(blocks, f) ==
    LET text == Strip(At(blocks, f.i).text)
    IN  IF text = "" THEN [f EXCEPT !.i = @ + 1]
        ELSE IF ~f.found_abstract_header
             THEN IF MatchAbstractHeader(text)
                  THEN [f EXCEPT !.found_abstract_header = TRUE,
                                 !.current_index = f.i + 1, !.i = @ + 1]
                  ELSE [f EXCEPT !.i = @ + 1]
        ELSE IF MatchAbstractStop(text)
             THEN [f EXCEPT !.current_index = f.i + 1, !.brk = TRUE]
        ELSE [f EXCEPT !.abstract_lines = Append(@, text),
                       !.current_index = f.i + 1, !.i = @ + 1]

\* AbstractStepBlocks that moves current_index past every block it scans
\* while it looks for the header
AbstractStepBlocksConsumesScanned(blocks, f) ==
    LET text == Strip(At(blocks, f.i).text)
    IN  IF text = "" THEN [f EXCEPT !.i = @ + 1]
        ELSE IF ~f.found_abstract_header
             THEN IF MatchAbstractHeader(text)
                  THEN [f EXCEPT !.found_abstract_header = TRUE,
                                 !.current_index = f.i + 1, !.i = @ + 1]
                  ELSE [f EXCEPT !.current_index = f.i + 1, !.i = @ + 1]
        ELSE IF MatchAbstractStop(text) THEN [f EXCEPT !.brk = TRUE]
        ELSE [f EXCEPT !.abstract_lines = Append(@, text),
                       !.current_index = f.i + 1, !.i = @ + 1]

\* AbstractStepBlocks that leaves current_index where it was when it finds
\* the header
AbstractStepBlocksHeaderKeepsCursor(blocks, f) ==
    LET text == Strip(At(blocks, f.i).text)
    IN  IF text = "" THEN [f EXCEPT !.i = @ + 1]
        ELSE IF ~f.found_abstract_header
             THEN IF MatchAbstractHeader(text)
                  THEN [f EXCEPT !.found_abstract_header = TRUE, !.i = @ + 1]
                  ELSE [f EXCEPT !.i = @ + 1]
        ELSE IF MatchAbstractStop(text) THEN [f EXCEPT !.brk = TRUE]
        ELSE [f EXCEPT !.abstract_lines = Append(@, text),
                       !.current_index = f.i + 1, !.i = @ + 1]

\* one iteration of the loop of _extract_abstract_from_blocks
AbstractStepBlocks(blocks, f) ==
    LET text == Strip(At(blocks, f.i).text)
    IN  IF text = "" THEN [f EXCEPT !.i = @ + 1]
        ELSE IF ~f.found_abstract_header
             THEN IF MatchAbstractHeader(text)
                  THEN [f EXCEPT !.found_abstract_header = TRUE,
                                 !.current_index = f.i + 1, !.i = @ + 1]
                  ELSE [f EXCEPT !.i = @ + 1]
        ELSE IF MatchAbstractStop(text) THEN [f EXCEPT !.brk = TRUE]
        ELSE [f EXCEPT !.abstract_lines = Append(@, text),
                       !.current_index = f.i + 1, !.i = @ + 1]

\* one iteration of the loop of _extract_abstract_from_docx
AbstractStepDocx(paragraphs, f) ==
    LET text == Strip(At(paragraphs, f.i).text)
    IN  IF text = "" THEN [f EXCEPT !.i = @ + 1]
        ELSE IF ~f.found_abstract_header
             THEN IF MatchAbstractHeader(text)
                  THEN [f EXCEPT !.found_abstract_header = TRUE,
                                 !.current_index = f.i + 1, !.i = @ + 1]
                  ELSE [f EXCEPT !.i = @ + 1]
        ELSE IF MatchAbstractStop(text) THEN [f EXCEPT !.brk = TRUE]
        ELSE [f EXCEPT !.abstract_lines = Append(@, text),
                       !.current_index = f.i + 1, !.i = @ + 1]

AbstractValue(f) == Join(f.abstract_lines, " ")

(***************************************************************************)
(* Keywords stage.                                                         *)
(***************************************************************************)
\* stands for the em dash (U+2014) of the separator class [:\s—-]
EmDash == "~"

IsKeywordSep(c) == c = ":" \/ IsSpace(c) \/ c = EmDash \/ c = "-"

RECURSIVE RunKeywordSep(_, _)
RunKeywordSep(s, p) ==
    IF p <= Len(s) /\ IsKeywordSep(Char(s, p)) THEN RunKeywordSep(s, p + 1)
    ELSE p

\* the tail  [:\s—-]+(.+)  tried at position p
RECURSIVE SepThenDot(_, _, _)
SepThenDot(s, p, q) ==
    IF q <= p THEN NoMatch
    ELSE IF RunDot(s, q) > q THEN Match(SubSeq(s, q, RunDot(s, q) - 1), "")
    ELSE SepThenDot(s, p, q - 1)

\* re.match(r'^(keywords?|index terms)', text.lower())
MatchKeywordsHeader(text) ==
    LowerStartsWith(text, "keyword") \/ LowerStartsWith(text, "index terms")

\* re.search(r'^(?:keywords?|index terms)[:\s—-]+(.+)', text, re.IGNORECASE);
\* g1 is group(1)
MatchKeywordsSameLine(text) ==
    LET p == IF LowerStartsWith(text, "keywords") THEN 9
             ELSE IF LowerStartsWith(text, "keyword") THEN 8
             ELSE IF LowerStartsWith(text, "index terms") THEN 12
             ELSE 0
    IN  IF p = 0 THEN NoMatch
        ELSE SepThenDot(text, p, RunKeywordSep(text, p))

\* re.match(r'^(introduction|i\.|1\.)', text.lower())
MatchIntroduction(text) ==
    \E w \in {"introduction", "i.", "1."} : LowerStartsWith(text, w)

\* KeywordsInit with current_index starting at 0 instead of start_index
KeywordsInitFromZero(start_index) ==
    [start_index |-> start_index, i |-> start_index,
     current_index |-> 0, keywords |-> "",
     found_keywords_header |-> FALSE, brk |-> FALSE]

KeywordsInit(start_index) ==
    [start_index |-> start_index, i |-> start_index,
     current_index |-> start_index, keywords |-> "",
     found_keywords_header |-> FALSE, brk |-> FALSE]

KeywordsLoopDone(blocks, f) ==
    f.brk \/ f.i >= Min(f.start_index + 20, Len(blocks))

\* KeywordsStepBlocks that goes on scanning after a header with keywords on
\* its line
KeywordsStepBlocksNoBreak(blocks, f) ==
    LET text == Strip(At(blocks, f.i).text)
        keywords_match == MatchKeywordsSameLine(text)
    IN  IF text = "" THEN [f EXCEPT !.i = @ + 1]
        ELSE IF ~f.found_keywords_header
             THEN IF MatchKeywordsHeader(text)
                  THEN IF keywords_match.matched
                       THEN [f EXCEPT !.found_keywords_header = TRUE,
                                      !.keywords = keywords_match.g1,
                                      !.current_index = f.i + 1,
                                      !.i = @ + 1]
                       ELSE [f EXCEPT !.found_keywords_header = TRUE,
                                      !.current_index = f.i + 1,
                                      !.i = @ + 1]
                  ELSE [f EXCEPT !.i = @ + 1]
        ELSE IF MatchIntroduction(text) THEN [f EXCEPT !.brk = TRUE]
        ELSE [f EXCEPT !.keywords = text, !.current_index = f.i + 1,
                       !.brk = TRUE]

\* KeywordsStepBlocks that moves current_index past the introduction block it
\* stops at
KeywordsStepBlocksConsumesIntro(blocks, f) ==
    LET text == Strip(At(blocks, f.i).text)
        keywords_match == MatchKeywordsSameLine(text)
    IN  IF text = "" THEN [f EXCEPT !.i = @ + 1]
        ELSE IF ~f.found_keywords_header
             THEN IF MatchKeywordsHeader(text)
                  THEN IF keywords_match.matched
                       THEN [f EXCEPT !.found_keywords_header = TRUE,
                                      !.keywords = keywords_match.g1,
                                      !.current_index = f.i + 1,
                                      !.brk = TRUE]
                       ELSE [f EXCEPT !.found_keywords_header = TRUE,
                                      !.current_index = f.i + 1,
                                      !.i = @ + 1]
                  ELSE [f EXCEPT !.i = @ + 1]
        ELSE IF MatchIntroduction(text)
             THEN [f EXCEPT !.current_index = f.i + 1, !.brk = TRUE]
        ELSE [f EXCEPT !.keywords = text, !.current_index = f.i + 1,
                       !.brk = TRUE]

\* one iteration of the loop of _extract_keywords_from_blocks
KeywordsStepBlocks(blocks, f) ==
    LET text == Strip(At(blocks, f.i).text)
        keywords_match == MatchKeywordsSameLine(text)
    IN  IF text = "" THEN [f EXCEPT !.i = @ + 1]
        ELSE IF ~f.found_keywords_header
             THEN IF MatchKeywordsHeader(text)
                  THEN IF keywords_match.matched
                       THEN [f EXCEPT !.found_keywords_header = TRUE,
                                      !.keywords = keywords_match.g1,
                                      !.current_index = f.i + 1,
                                      !.brk = TRUE]
                       ELSE [f EXCEPT !.found_keywords_header = TRUE,
                                      !.current_index = f.i + 1,
                                      !.i = @ + 1]
                  ELSE [f EXCEPT !.i = @ + 1]
        ELSE IF MatchIntroduction(text) THEN [f EXCEPT !.brk = TRUE]
        ELSE [f EXCEPT !.keywords = text, !.current_index = f.i + 1,
                       !.brk = TRUE]

\* one iteration of the loop of _extract_keywords_from_docx
KeywordsStepDocx(paragraphs, f) ==
    LET text == Strip(At(paragraphs, f.i).text)
        keywords_match == MatchKeywordsSameLine(text)
    IN  IF text = "" THEN [f EXCEPT !.i = @ + 1]
        ELSE IF ~f.found_keywords_header
             THEN IF MatchKeywordsHeader(text)
                  THEN IF keywords_match.matched
                       THEN [f EXCEPT !.found_keywords_header = TRUE,
                                      !.keywords = keywords_match.g1,
                                      !.current_index = f.i + 1,
                                      !.brk = TRUE]
                       ELSE [f EXCEPT !.found_keywords_header = TRUE,
                                      !.current_index = f.i + 1,
                                      !.i = @ + 1]
                  ELSE [f EXCEPT !.i = @ + 1]
        ELSE IF MatchIntroduction(text) THEN [f EXCEPT !.brk = TRUE]
        ELSE [f EXCEPT !.keywords = text, !.current_index = f.i + 1,
                       !.brk = TRUE]

KeywordsValue(f) == f.keywords

(***************************************************************************)
(* Section stage.  current_section is <<>> for None and <<section>> for an *)
(* open section.                                                           *)
(***************************************************************************)
\* SectionsInit with the scan starting at block 0 instead of start_index
SectionsInitScanAll(start_index) ==
    [start_index |-> start_index, i |-> 0,
     current_index |-> start_index, sections |-> <<>>,
     current_section |-> <<>>, brk |-> FALSE]

SectionsInit(start_index) ==
    [start_index |-> start_index, i |-> start_index,
     current_index |-> start_index, sections |-> <<>>,
     current_section |-> <<>>, brk |-> FALSE]

SectionsLoopDone(blocks, f) == f.brk \/ f.i >= Len(blocks)

\* SavePrevious that forgets to append the open section
SavePreviousForgets(sections, current_section) == sections

\* "Save previous section": sections.append(current_section) when one is open
SavePrevious(sections, current_section) ==
    IF current_section # <<>> THEN Append(sections, current_section[1])
    ELSE sections

\* "Start new section"
NewSection(sections, match) ==
    [id |-> "section_" \o IntToStr(Len(sections)),
     title |-> Strip(match.g2),
     number |-> match.g1,
     contentBlocks |-> <<>>,
     order |-> Len(sections)]

TextBlock(contentBlocks, text) ==
    [id |-> "block_" \o IntToStr(Len(contentBlocks)),
     type |-> "text",
     content |-> text,
     order |-> Len(contentBlocks)]

ImageBlock(contentBlocks) ==
    [id |-> "block_" \o IntToStr(Len(contentBlocks)),
     type |-> "image",
     image_data |-> "",
     caption |-> "",
     order |-> Len(contentBlocks)]

\* AppendContent that assigns the list instead of appending to it
AppendContentAssign(section, cb) ==
    [section EXCEPT !.contentBlocks = <<cb>>]

\* current_section['contentBlocks'].append(cb)
AppendContent(section, cb) ==
    [section EXCEPT !.contentBlocks = Append(@, cb)]

\* SectionsStepBlocks that opens a front-matter section for a block met
\* while no section is open
SectionsStepBlocksPreamble(blocks, f) ==
    LET text == Strip(At(blocks, f.i).text)
        match == MatchSectionHeader(text)
        saved == SavePrevious(f.sections, f.current_section)
        preamble == [id |-> "section_0", title |-> "", number |-> "",
                     contentBlocks |-> <<>>, order |-> 0]
    IN  IF text = "" THEN [f EXCEPT !.i = @ + 1]
        ELSE IF MatchReferencesHeader(text)
             THEN [f EXCEPT !.current_index = f.i, !.brk = TRUE]
        ELSE IF match.matched
             THEN [f EXCEPT !.sections = saved,
                            !.current_section = <<NewSection(saved, match)>>,
                            !.i = @ + 1]
        ELSE IF f.current_section # <<>>
             THEN [f EXCEPT !.current_section =
                        <<AppendContent(@[1], TextBlock(@[1].contentBlocks, text))>>,
                            !.i = @ + 1]
        ELSE [f EXCEPT !.current_section =
                        <<AppendContent(preamble, TextBlock(<<>>, text))>>,
                       !.i = @ + 1]

\* one iteration of the loop of _extract_sections_from_blocks
SectionsStepBlocks(blocks, f) ==
    LET text == Strip(At(blocks, f.i).text)
        match == MatchSectionHeader(text)
        saved == SavePrevious(f.sections, f.current_section)
    IN  IF text = "" THEN [f EXCEPT !.i = @ + 1]
        ELSE IF MatchReferencesHeader(text)
             THEN [f EXCEPT !.current_index = f.i, !.brk = TRUE]
        ELSE IF match.matched
             THEN [f EXCEPT !.sections = saved,
                            !.current_section = <<NewSection(saved, match)>>,
                            !.i = @ + 1]
        ELSE IF f.current_section # <<>>
             THEN [f EXCEPT !.current_section =
                        <<AppendContent(@[1], TextBlock(@[1].contentBlocks, text))>>,
                            !.i = @ + 1]
        ELSE [f EXCEPT !.i = @ + 1]

\* DocxContent that numbers the image block with the count taken before the
\* text block was appended
DocxContentStaleCount(section, para, text) ==
    LET withText == AppendContent(section, TextBlock(section.contentBlocks, text))
    IN  IF para.pic
        THEN AppendContent(withText, ImageBlock(section.contentBlocks))
        ELSE withText

\* the body of "elif current_section" of the DOCX variant: the text block,
\* then a placeholder image block when the paragraph embeds a picture
DocxContent(section, para, text) ==
    LET withText == AppendContent(section, TextBlock(section.contentBlocks, text))
    IN  IF para.pic
        THEN AppendContent(withText, ImageBlock(withText.contentBlocks))
        ELSE withText

\* SectionsStepDocx that moves the cursor past the References header, as
\* the other stages do with the blocks they consume
SectionsStepDocxPastHeader(paragraphs, f) ==
    LET para == At(paragraphs, f.i)
        text == Strip(para.text)
        match == MatchSectionHeader(text)
        saved == SavePrevious(f.sections, f.current_section)
    IN  IF text = "" THEN [f EXCEPT !.i = @ + 1]
        ELSE IF MatchReferencesHeader(text)
             THEN [f EXCEPT !.current_index = f.i + 1, !.brk = TRUE]
        ELSE IF match.matched
             THEN [f EXCEPT !.sections = saved,
                            !.current_section = <<NewSection(saved, match)>>,
                            !.i = @ + 1]
        ELSE IF f.current_section # <<>>
             THEN [f EXCEPT !.current_section = <<DocxContent(@[1], para, text)>>,
                            !.i = @ + 1]
        ELSE [f EXCEPT !.i = @ + 1]

\* one iteration of the loop of _extract_sections_from_docx
SectionsStepDocx(paragraphs, f) ==
    LET para == At(paragraphs, f.i)
        text == Strip(para.text)
        match == MatchSectionHeader(text)
        saved == SavePrevious(f.sections, f.current_section)
    IN  IF text = "" THEN [f EXCEPT !.i = @ + 1]
        ELSE IF MatchReferencesHeader(text)
             THEN [f EXCEPT !.current_index = f.i, !.brk = TRUE]
        ELSE IF match.matched
             THEN [f EXCEPT !.sections = saved,
                            !.current_section = <<NewSection(saved, match)>>,
                            !.i = @ + 1]
        ELSE IF f.current_section # <<>>
             THEN [f EXCEPT !.current_section = <<DocxContent(@[1], para, text)>>,
                            !.i = @ + 1]
        ELSE [f EXCEPT !.i = @ + 1]

\* SectionsValue without "Add last section"
SectionsValueNoLast(f) == f.sections

\* "Add last section", then the returned list
SectionsValue(f) == SavePrevious(f.sections, f.current_section)

(***************************************************************************)
(* Reference stage.                                                        *)
(***************************************************************************)
ReferencesInit(start_index) ==
    [start_index |-> start_index, i |-> start_index,
     references |-> <<>>, found_references_header |-> FALSE,
     current_ref_text |-> "", current_ref_number |-> 0]

ReferencesLoopDone(blocks, f) == f.i >= Len(blocks)

\* FlushReference that takes the order from the position in the list
FlushReferenceByPosition(references, current_ref_text, current_ref_number) ==
    IF current_ref_text # ""
    THEN Append(references, [text |-> Strip(current_ref_text),
                             order |-> Len(references)])
    ELSE references

\* FlushReference that keeps one entry per order: a reference with the order
\* of an earlier entry replaces that entry
FlushReferenceReplaces(references, current_ref_text, current_ref_number) ==
    IF current_ref_text = "" THEN references
    ELSE IF \E k \in 1..Len(references) : references[k].order = current_ref_number
    THEN [k \in 1..Len(references) |->
             IF references[k].order = current_ref_number
             THEN [text |-> Strip(current_ref_text), order |-> current_ref_number]
             ELSE references[k]]
    ELSE Append(references, [text |-> Strip(current_ref_text),
                             order |-> current_ref_number])

\* references.append({...}) when current_ref_text is not empty
FlushReference(references, current_ref_text, current_ref_number) ==
    IF current_ref_text # ""
    THEN Append(references, [text |-> Strip(current_ref_text),
                             order |-> current_ref_number])
    ELSE references

\* ReferencesStepBlocks that joins a continuation block without the space
ReferencesStepBlocksNoSpace(blocks, f) ==
    LET text == Strip(At(blocks, f.i).text)
        ref_match == MatchRefMarker(text)
    IN  IF text = "" THEN [f EXCEPT !.i = @ + 1]
        ELSE IF ~f.found_references_header
             THEN IF MatchReferencesHeader(text)
                  THEN [f EXCEPT !.found_references_header = TRUE, !.i = @ + 1]
                  ELSE [f EXCEPT !.i = @ + 1]
        ELSE IF ref_match.matched
             THEN [f EXCEPT !.references =
                        FlushReference(@, f.current_ref_text, f.current_ref_number),
                            !.current_ref_number = StrToInt(ref_match.g1) - 1,
                            !.current_ref_text = ref_match.g2,
                            !.i = @ + 1]
        ELSE IF f.current_ref_text # ""
             THEN [f EXCEPT !.current_ref_text = @ \o text, !.i = @ + 1]
        ELSE [f EXCEPT !.i = @ + 1]

\* one iteration of the loop of _extract_references_from_blocks
ReferencesStepBlocks(blocks, f) ==
    LET text == Strip(At(blocks, f.i).text)
        ref_match == MatchRefMarker(text)
    IN  IF text = "" THEN [f EXCEPT !.i = @ + 1]
        ELSE IF ~f.found_references_header
             THEN IF MatchReferencesHeader(text)
                  THEN [f EXCEPT !.found_references_header = TRUE, !.i = @ + 1]
                  ELSE [f EXCEPT !.i = @ + 1]
        ELSE IF ref_match.matched
             THEN [f EXCEPT !.references =
                        FlushReference(@, f.current_ref_text, f.current_ref_number),
                            !.current_ref_number = StrToInt(ref_match.g1) - 1,
                            !.current_ref_text = ref_match.g2,
                            !.i = @ + 1]
        ELSE IF f.current_ref_text # ""
             THEN [f EXCEPT !.current_ref_text = @ \o " " \o text, !.i = @ + 1]
        ELSE [f EXCEPT !.i = @ + 1]

\* ReferencesStepDocx of a DOCX variant that keeps only the marker's own
\* paragraph of a reference
ReferencesStepDocxFirstLineOnly(paragraphs, f) ==
    LET text == Strip(At(paragraphs, f.i).text)
        ref_match == MatchRefMarker(text)
    IN  IF text = "" THEN [f EXCEPT !.i = @ + 1]
        ELSE IF ~f.found_references_header
             THEN IF MatchReferencesHeader(text)
                  THEN [f EXCEPT !.found_references_header = TRUE, !.i = @ + 1]
                  ELSE [f EXCEPT !.i = @ + 1]
        ELSE IF ref_match.matched
             THEN [f EXCEPT !.references =
                        FlushReference(@, f.current_ref_text, f.current_ref_number),
                            !.current_ref_number = StrToInt(ref_match.g1) - 1,
                            !.current_ref_text = ref_match.g2,
                            !.i = @ + 1]
        ELSE [f EXCEPT !.i = @ + 1]

\* one iteration of the loop of _extract_references_from_docx
ReferencesStepDocx(paragraphs, f) ==
    LET text == Strip(At(paragraphs, f.i).text)
        ref_match == MatchRefMarker(text)
    IN  IF text = "" THEN [f EXCEPT !.i = @ + 1]
        ELSE IF ~f.found_references_header
             THEN IF MatchReferencesHeader(text)
                  THEN [f EXCEPT !.found_references_header = TRUE, !.i = @ + 1]
                  ELSE [f EXCEPT !.i = @ + 1]
        ELSE IF ref_match.matched
             THEN [f EXCEPT !.references =
                        FlushReference(@, f.current_ref_text, f.current_ref_number),
                            !.current_ref_number = StrToInt(ref_match.g1) - 1,
                            !.current_ref_text = ref_match.g2,
                            !.i = @ + 1]
        ELSE IF f.current_ref_text # ""
             THEN [f EXCEPT !.current_ref_text = @ \o " " \o text, !.i = @ + 1]
        ELSE [f EXCEPT !.i = @ + 1]

\* the references in increasing order of their order field
RECURSIVE SortByOrder(_)
SortByOrder(references) ==
    IF references = <<>> THEN <<>>
    ELSE LET last == references[Len(references)]
             front == SortByOrder(SubSeq(references, 1, Len(references) - 1))
         IN  SelectSeq(front, LAMBDA r : r.order <= last.order)
             \o <<last>>
             \o SelectSeq(front, LAMBDA r : r.order > last.order)

\* ReferencesValue that returns the list sorted by bracket number
ReferencesValueSorted(f) ==
    SortByOrder(FlushReference(f.references, f.current_ref_text,
                               f.current_ref_number))

\* ReferencesValue that adds the last reference without testing that one was
\* started
ReferencesValueAlwaysAdds(f) ==
    Append(f.references, [text |-> Strip(f.current_ref_text),
                          order |-> f.current_ref_number])

\* "Add last reference", then the returned list
ReferencesValue(f) ==
    FlushReference(f.references, f.current_ref_text, f.current_ref_number)

(***************************************************************************)
(* The pipeline of _parse_pdf / _parse_docx as a state machine.            *)
(***************************************************************************)
VARIABLES
    src,      \* "pdf": _parse_pdf runs; "docx": _parse_docx runs
    blocks,   \* all_text_blocks (PDF) or doc.paragraphs (DOCX)
    mode,     \* "pipeline": the six stages in order; "stage": one stage alone
    pc,       \* the stage that is running, "done" after the last one
    frame,    \* the local variables of the running stage
    cursor,   \* current_index / current_para_index of _parse_pdf / _parse_docx
    result,   \* the result dictionary
    returned, \* the stage that returned last, "none" before the first return
    LIBREOFFICE_AVAILABLE, \* app.py: the global availability flag
    request,  \* the HTTP request being handled, NoRequest outside a request
    files,    \* the files that exist in the temporary directory
    response, \* the HTTP response of the handler, NoResponse before it
    runs,     \* the subprocess.run calls made, in order
    metrics,  \* the records written to the metrics logger, in order
    calls,    \* the parse calls running concurrently, each with its own locals
    parsers   \* the IEEEDocumentParser instances created, in order

parserVars == <<src, blocks, mode, pc, frame, cursor, result, returned>>

serviceVars == <<LIBREOFFICE_AVAILABLE, request, files, response, runs, metrics>>

concurrentVars == <<calls, parsers>>

vars == <<parserVars, serviceVars, concurrentVars>>

NoRequest == [endpoint |-> "none"]

NoResponse == [status |-> 0]

\* the service's state while the parser is called directly
ServiceIdle ==
    /\ LIBREOFFICE_AVAILABLE = FALSE
    /\ request = NoRequest
    /\ files = {}
    /\ response = NoResponse
    /\ runs = <<>>
    /\ metrics = <<>>
    /\ calls = <<>>
    /\ parsers = <<>>

Stages == <<"title", "authors", "abstract", "keywords", "sections", "references">>

StageNames == {Stages[k] : k \in 1..Len(Stages)}

\* the stage _parse_pdf / _parse_docx calls after stage s
NextStage(s) ==
    LET k == CHOOSE j \in 1..Len(Stages) : Stages[j] = s
    IN  IF k = Len(Stages) THEN "done" ELSE Stages[k + 1]

_init_result ==
    [title |-> "", authors |-> <<>>, abstract |-> "", keywords |-> "",
     sections |-> <<>>, references |-> <<>>]

InitOf(stage, start_index) ==
    CASE stage = "title" -> TitleInit(start_index)
      [] stage = "authors" -> AuthorsInit(start_index)
      [] stage = "abstract" -> AbstractInit(start_index)
      [] stage = "keywords" -> KeywordsInit(start_index)
      [] stage = "sections" -> SectionsInit(start_index)
      [] stage = "references" -> ReferencesInit(start_index)

LoopDoneOf(stage, bs, f) ==
    CASE stage = "title" -> TitleLoopDone(bs, f)
      [] stage = "authors" -> AuthorsLoopDone(bs, f)
      [] stage = "abstract" -> AbstractLoopDone(bs, f)
      [] stage = "keywords" -> KeywordsLoopDone(bs, f)
      [] stage = "sections" -> SectionsLoopDone(bs, f)
      [] stage = "references" -> ReferencesLoopDone(bs, f)

TitleStepOf(s, bs, f) ==
    IF s = "pdf" THEN TitleStepBlocks(bs, f) ELSE TitleStepDocx(bs, f)

AuthorsStepOf(s, bs, f) ==
    IF s = "pdf" THEN AuthorsStepBlocks(bs, f) ELSE AuthorsStepDocx(bs, f)

AbstractStepOf(s, bs, f) ==
    IF s = "pdf" THEN AbstractStepBlocks(bs, f) ELSE AbstractStepDocx(bs, f)

KeywordsStepOf(s, bs, f) ==
    IF s = "pdf" THEN KeywordsStepBlocks(bs, f) ELSE KeywordsStepDocx(bs, f)

SectionsStepOf(s, bs, f) ==
    IF s = "pdf" THEN SectionsStepBlocks(bs, f) ELSE SectionsStepDocx(bs, f)

ReferencesStepOf(s, bs, f) ==
    IF s = "pdf" THEN ReferencesStepBlocks(bs, f) ELSE ReferencesStepDocx(bs, f)

StepOf(s, stage, bs, f) ==
    CASE stage = "title" -> TitleStepOf(s, bs, f)
      [] stage = "authors" -> AuthorsStepOf(s, bs, f)
      [] stage = "abstract" -> AbstractStepOf(s, bs, f)
      [] stage = "keywords" -> KeywordsStepOf(s, bs, f)
      [] stage = "sections" -> SectionsStepOf(s, bs, f)
      [] stage = "references" -> ReferencesStepOf(s, bs, f)

\* the value a stage returns from its final frame
ValueOf(stage, f) ==
    CASE stage = "title" -> TitleValue(f)
      [] stage = "authors" -> AuthorsValue(f)
      [] stage = "abstract" -> AbstractValue(f)
      [] stage = "keywords" -> KeywordsValue(f)
      [] stage = "sections" -> SectionsValue(f)
      [] stage = "references" -> ReferencesValue(f)

\* the cursor a stage returns; the reference stage returns none, the
\* caller's cursor c stays
CursorOf(stage, f, c) ==
    IF stage = "references" THEN c ELSE f.current_index

\* a whole stage call: the loop run to its end from frame f
RECURSIVE RunStage(_, _, _, _)
RunStage(s, stage, bs, f) ==
    IF LoopDoneOf(stage, bs, f) THEN f
    ELSE RunStage(s, stage, bs, StepOf(s, stage, bs, f))

(***************************************************************************)
(* Inputs: the blocks the runs are made of.                                *)
(***************************************************************************)
PdfBlock(text, size) == [text |-> text, page |-> 0, top |-> 0, size |-> size]

Para(text, size, bold, pic) ==
    [text |-> text, runs |-> <<[size |-> size, bold |-> bold]>>, pic |-> pic]

\* texts of the inputs, one per kind of block the stages tell apart
TitleText == "Big Title"
AuthorText == "Al Bo"
AbstractText == "Abstract"
KeywordsText == "Keywords: kw"
HeaderText == "I. Intro"
LetterHeaderText == "B. Sub"
BodyText == "body text"
ReferencesText == "References"
MarkerText == "[2] Bravo"
MarkerOneText == "[1] Alpha"
BlankText == "  "

PipelineTexts ==
    {TitleText, AuthorText, AbstractText, KeywordsText, HeaderText, BodyText,
     ReferencesText, MarkerText, BlankText}

StageTexts(stage) ==
    CASE stage = "title" -> {TitleText, HeaderText, BodyText, BlankText}
      [] stage = "authors" -> {AuthorText, AbstractText, BodyText, BlankText}
      [] stage = "abstract" ->
            {AbstractText, KeywordsText, BodyText, HeaderText, BlankText}
      [] stage = "keywords" -> {KeywordsText, BodyText, HeaderText, BlankText}
      [] stage = "sections" ->
            {HeaderText, LetterHeaderText, BodyText, MarkerText, ReferencesText,
             BlankText}
      [] stage = "references" ->
            {ReferencesText, MarkerText, MarkerOneText, BodyText, BlankText}

\* the title text is set in 18pt, every other text in 10pt
SizeOf(text) == IF text = TitleText THEN 18 ELSE 10

\* the blocks a source can hold for a set of texts; a DOCX body paragraph
\* may embed a picture
BlocksOf(s, texts) ==
    IF s = "pdf" THEN {PdfBlock(t, SizeOf(t)) : t \in texts}
    ELSE {Para(t, SizeOf(t), FALSE, FALSE) : t \in texts}
         \cup {Para(t, SizeOf(t), FALSE, TRUE) : t \in texts \cap {BodyText}}

SeqsUpTo(S, n) == UNION {[1..k -> S] : k \in 0..n}

Init ==
    /\ src \in {"pdf", "docx"}
    /\ blocks \in SeqsUpTo(BlocksOf(src, PipelineTexts), MaxBlocks)
    /\ mode = "pipeline"
    /\ pc = "title"
    /\ cursor = 0
    /\ frame = TitleInit(0)
    /\ result = _init_result
    /\ returned = "none"
    /\ ServiceIdle

InitStage ==
    /\ src \in {"pdf", "docx"}
    /\ pc \in StageNames
    /\ blocks \in SeqsUpTo(BlocksOf(src, StageTexts(pc)), MaxStageBlocks)
    /\ mode = "stage"
    /\ cursor \in 0..(Len(blocks) + 1)
    /\ frame = InitOf(pc, cursor)
    /\ result = _init_result
    /\ returned = "none"
    /\ ServiceIdle

\* how many blocks past the end of a stage's window the padded inputs reach
MaxPast == 1

\* the largest start cursor of the runs on padded inputs
MaxWindowStart == 1

\* the number of blocks a stage looks at from its start cursor; the section
\* and reference stages scan to the end of the input
WindowOf(stage) ==
    CASE stage = "title" -> 5
      [] stage = "authors" -> 10
      [] stage = "abstract" -> 30
      [] stage = "keywords" -> 20
      [] OTHER -> 0

Repeat(x, n) == [k \in 1..n |-> x]

\* a text shorter than five characters
ShortText == "Hi"

\* blocks that differ in what the title rules look at: the size around 14pt,
\* the page, bold runs, the length of the text, a section keyword
TitleVariants(s) ==
    IF s = "pdf"
    THEN {PdfBlock(TitleText, 14), PdfBlock(TitleText, 12),
          PdfBlock(AbstractText, 18), PdfBlock(HeaderText, 18),
          [PdfBlock(TitleText, 18) EXCEPT !.page = 1]}
    ELSE {Para(TitleText, 14, FALSE, FALSE), Para(TitleText, 10, TRUE, FALSE),
          Para(AbstractText, 10, TRUE, FALSE), Para(HeaderText, 18, FALSE, FALSE),
          Para(ShortText, 18, FALSE, FALSE)}

\* author lines that differ in what the author parsing looks at: two names,
\* an e-mail address, an affiliation keyword
TwoNamesText == "Al Bo, Cy Di"
EmailText == "c@d.ef"
LabText == "AI Lab"
UniversityText == "Ed University"

AuthorVariants == {TwoNamesText, EmailText, LabText, UniversityText}

\* an Abstract header with text on the same line, and the other stop header
AbstractLineText == "ABSTRACT: abc"
IndexTermsText == "Index Terms: kw"

AbstractVariants == {AbstractLineText, IndexTermsText}

\* a keywords header alone on its line, and one followed by a dash
KeywordsAloneText == "Keywords"
DashKeywordsText == "Index Terms" \o EmDash \o "a, b"

KeywordsVariants == {KeywordsAloneText, DashKeywordsText}

\* the blocks that differ in what one stage looks at
StageVariants(s, stage) ==
    CASE stage = "title" -> TitleVariants(s)
      [] stage = "authors" -> BlocksOf(s, AuthorVariants)
      [] stage = "abstract" -> BlocksOf(s, AbstractVariants)
      [] stage = "keywords" -> BlocksOf(s, KeywordsVariants)
      [] OTHER -> {}

\* inputs longer than the window of the stage: at most one block, then one
\* block repeated up to past the window, then at most one block
PaddedBlocks(s, stage) ==
    LET B == BlocksOf(s, StageTexts(stage))
        V == B \cup StageVariants(s, stage)
    IN  {pre \o Repeat(fill, n) \o suf :
            pre \in SeqsUpTo(V, 1), fill \in B,
            n \in 0..(WindowOf(stage) + MaxPast), suf \in SeqsUpTo(V, 1)}

InitWindow ==
    /\ src \in {"pdf", "docx"}
    /\ pc \in StageNames
    /\ blocks \in PaddedBlocks(src, pc)
    /\ mode = "stage"
    /\ cursor \in 0..Min(MaxWindowStart, Len(blocks) + 1)
    /\ frame = InitOf(pc, cursor)
    /\ result = _init_result
    /\ returned = "none"
    /\ ServiceIdle

\* documents longer than every window: at most one block, then a body or
\* blank block repeated up to past the longest window, then at most one block
PaddedDocuments(s) ==
    LET P == BlocksOf(s, PipelineTexts)
        F == BlocksOf(s, {BodyText, BlankText})
    IN  {pre \o Repeat(fill, n) \o suf :
            pre \in SeqsUpTo(P, 1), fill \in F,
            n \in 0..(WindowOf("abstract") + MaxPast), suf \in SeqsUpTo(P, 1)}

InitLong ==
    /\ src \in {"pdf", "docx"}
    /\ blocks \in PaddedDocuments(src)
    /\ mode = "pipeline"
    /\ pc = "title"
    /\ cursor = 0
    /\ frame = TitleInit(0)
    /\ result = _init_result
    /\ returned = "none"
    /\ ServiceIdle

\* one iteration of the loop of the running stage
Iterate(stage) ==
    /\ pc = stage
    /\ ~LoopDoneOf(stage, blocks, frame)
    /\ frame' = StepOf(src, stage, blocks, frame)
    /\ UNCHANGED <<src, blocks, mode, pc, cursor, result, returned>>
    /\ UNCHANGED serviceVars
    /\ UNCHANGED concurrentVars

\* the code after the loop, the return, and the caller's assignment of the
\* returned pair; in a pipeline run the caller then calls the next stage
Return(stage) ==
    /\ pc = stage
    /\ LoopDoneOf(stage, blocks, frame)
    /\ result' = [result EXCEPT ![stage] = ValueOf(stage, frame)]
    /\ cursor' = CursorOf(stage, frame, cursor)
    /\ returned' = stage
    /\ IF mode = "pipeline" /\ NextStage(stage) # "done"
       THEN /\ pc' = NextStage(stage)
            /\ frame' = InitOf(NextStage(stage), cursor')
       ELSE /\ pc' = "done"
            /\ frame' = frame
    /\ UNCHANGED <<src, blocks, mode>>
    /\ UNCHANGED serviceVars
    /\ UNCHANGED concurrentVars

TitleStep == Iterate("title")

TitleReturn == Return("title")

AuthorsStep == Iterate("authors")

AuthorsReturn == Return("authors")

AbstractStep == Iterate("abstract")

AbstractReturn == Return("abstract")

KeywordsStep == Iterate("keywords")

KeywordsReturn == Return("keywords")

SectionsStep == Iterate("sections")

SectionsReturn == Return("sections")

ReferencesStep == Iterate("references")

ReferencesReturn == Return("references")

Next ==
    \/ TitleStep
    \/ TitleReturn
    \/ AuthorsStep
    \/ AuthorsReturn
    \/ AbstractStep
    \/ AbstractReturn
    \/ KeywordsStep
    \/ KeywordsReturn
    \/ SectionsStep
    \/ SectionsReturn
    \/ ReferencesStep
    \/ ReferencesReturn

\* a whole parse of a document
Spec == Init /\ [][Next]_vars

\* one stage called alone with any start cursor
SpecStage == InitStage /\ [][Next]_vars

\* one stage called alone on an input longer than its window
SpecWindow == InitWindow /\ [][Next]_vars

\* a whole parse of a document longer than the windows of the stages
SpecLong == InitLong /\ [][Next]_vars

(***************************************************************************)
(* Vocabulary of the properties: what the scanned blocks are, said without *)
(* the loops of the stages.                                                *)
(***************************************************************************)
StrippedText(bs, i) == Strip(At(bs, i).text)

NonBlank(bs, i) == StrippedText(bs, i) # ""

\* block i is a References / Bibliography boundary
IsBoundary(bs, i) ==
    NonBlank(bs, i) /\ MatchReferencesHeader(StrippedText(bs, i))

\* block i matches a section-header pattern
IsHeader(bs, i) ==
    NonBlank(bs, i) /\ MatchSectionHeader(StrippedText(bs, i)).matched

\* block i carries a [N] reference marker
IsMarker(bs, i) ==
    NonBlank(bs, i) /\ MatchRefMarker(StrippedText(bs, i)).matched

MinOf(S) == CHOOSE x \in S : \A y \in S : x <= y

BoundariesFrom(bs, s) == {i \in s..(Len(bs) - 1) : IsBoundary(bs, i)}

HasBoundary(bs, s) == BoundariesFrom(bs, s) # {}

\* index of the first boundary at or after s
FirstBoundary(bs, s) == MinOf(BoundariesFrom(bs, s))

\* where the section scan started at s ends: the boundary, or the end of input
ScanEnd(bs, s) == IF HasBoundary(bs, s) THEN FirstBoundary(bs, s) ELSE Len(bs)

\* the header blocks the section scan started at s meets
HeadersIn(bs, s) == {i \in s..(ScanEnd(bs, s) - 1) : IsHeader(bs, i)}

\* the blocks scanned while a section is open that are not headers
ContentIn(bs, s) ==
    {i \in s..(ScanEnd(bs, s) - 1) :
        /\ NonBlank(bs, i)
        /\ ~IsHeader(bs, i)
        /\ \E h \in HeadersIn(bs, s) : h < i}

\* the elements of a set of integers in increasing order
RECURSIVE Ascending(_)
Ascending(S) ==
    IF S = {} THEN <<>> ELSE <<MinOf(S)>> \o Ascending(S \ {MinOf(S)})

\* the content blocks of all sections, one after the other
RECURSIVE AllContent(_)
AllContent(sections) ==
    IF sections = <<>> THEN <<>>
    ELSE sections[1].contentBlocks \o AllContent(Tail(sections))

TextBlocksOf(cbs) == SelectSeq(cbs, LAMBDA cb : cb.type = "text")

\* a single-stage run of the named stage has returned
StageReturned(stage) == mode = "stage" /\ returned = stage

(***************************************************************************)
(* C1: the cursor of the pipeline never decreases: every stage returns a   *)
(* cursor greater than or equal to the cursor it was given.                *)
(***************************************************************************)
C1_CursorNonDecreasing ==
    [][/\ cursor' >= cursor
       /\ (returned' # returned => cursor' >= frame.start_index)]_vars

\* a parse whose title stage and a later stage both advanced the cursor
C1_Witness ==
    /\ mode = "pipeline"
    /\ pc = "done"
    /\ result.title # ""
    /\ result.abstract # ""
    /\ cursor >= 3

(***************************************************************************)
(* C2: a stage never looks backward and never changes a block: replacing   *)
(* any block before the start cursor leaves the returned value and the     *)
(* returned cursor unchanged.  (Two sequences that agree from the start    *)
(* cursor on differ by a chain of such single replacements.)               *)
(***************************************************************************)
C2_SameAfterReplacing(stage) ==
    \A j \in 1..Min(frame.start_index, Len(blocks)) :
        \A b \in BlocksOf(src, StageTexts(stage)) :
            LET other == [blocks EXCEPT ![j] = b]
                f == RunStage(src, stage, other,
                              InitOf(stage, frame.start_index))
            IN  /\ ValueOf(stage, f) = result[stage]
                /\ CursorOf(stage, f, frame.start_index) = cursor

C2_NoLookBack ==
    /\ [](\A stage \in StageNames :
            StageReturned(stage) => C2_SameAfterReplacing(stage))
    /\ [][blocks' = blocks]_vars

\* the section stage started just after a header block: had it looked at
\* the block before its cursor it would have opened a section
C2_Witness ==
    /\ StageReturned("sections")
    /\ frame.start_index = 1
    /\ Len(blocks) >= 2
    /\ IsHeader(blocks, 0)
    /\ NonBlank(blocks, 1)
    /\ result.sections = <<>>

(***************************************************************************)
(* C3: the section stage returns as many sections as there are header      *)
(* blocks between its start cursor and the boundary (or the end of input). *)
(***************************************************************************)
C3_SectionCount ==
    StageReturned("sections") =>
        Len(result.sections) = Cardinality(HeadersIn(blocks, frame.start_index))

\* two sections before a boundary, and a header after the boundary that
\* must not be counted
C3_Witness ==
    /\ StageReturned("sections")
    /\ Len(result.sections) = 2
    /\ HasBoundary(blocks, frame.start_index)
    /\ \E i \in 0..(Len(blocks) - 1) :
          i > FirstBoundary(blocks, frame.start_index) /\ IsHeader(blocks, i)

(***************************************************************************)
(* C4 (as stated): the content blocks of all returned sections are as many *)
(* as the non-blank, non-header blocks scanned while a section was open,   *)
(* and they are text blocks holding the stripped texts in scan order.      *)
(***************************************************************************)
C4_AllContentIsScannedText ==
    StageReturned("sections") =>
        LET content == AllContent(result.sections)
            scanned == Ascending(ContentIn(blocks, frame.start_index))
        IN  /\ Len(content) = Len(scanned)
            /\ \A k \in 1..Len(content) :
                  /\ content[k].type = "text"
                  /\ content[k].content = StrippedText(blocks, scanned[k])

(***************************************************************************)
(* C4 (amended): the text content blocks of all returned sections are as   *)
(* many as the non-blank, non-header blocks scanned while a section was    *)
(* open, each holding the stripped text of its block, in scan order; the   *)
(* other content blocks are the image placeholders of the DOCX variant,    *)
(* one for each such paragraph that embeds a picture.                      *)
(***************************************************************************)
C4_TextContentIsScannedText ==
    StageReturned("sections") =>
        LET content == AllContent(result.sections)
            texts == TextBlocksOf(content)
            scanned == Ascending(ContentIn(blocks, frame.start_index))
            pictures == {i \in ContentIn(blocks, frame.start_index) :
                            src = "docx" /\ At(blocks, i).pic}
        IN  /\ Len(texts) = Len(scanned)
            /\ \A k \in 1..Len(texts) :
                  texts[k].content = StrippedText(blocks, scanned[k])
            /\ Len(content) = Len(scanned) + Cardinality(pictures)

\* a DOCX section stage that returned text blocks and an image placeholder
C4_Witness ==
    /\ StageReturned("sections")
    /\ src = "docx"
    /\ Len(TextBlocksOf(AllContent(result.sections))) >= 2
    /\ Len(AllContent(result.sections))
          > Len(TextBlocksOf(AllContent(result.sections)))

(***************************************************************************)
(* C5: while the section stage scans, at most one section is open and it   *)
(* is not in the result list; the list grows only by the open section, and *)
(* only on a header block or at the end of the scan (boundary or end of    *)
(* input); the returned sections are those of the header blocks, in        *)
(* document order, each once.                                              *)
(***************************************************************************)
C5_OpenNotInResult ==
    /\ Len(frame.current_section) <= 1
    /\ frame.current_section # <<>> =>
          \A k \in 1..Len(frame.sections) :
              /\ frame.sections[k] # frame.current_section[1]
              /\ frame.sections[k].id # frame.current_section[1].id

C5_Iteration ==
    IF IsHeader(blocks, frame.i) /\ ~IsBoundary(blocks, frame.i)
    THEN /\ frame'.sections =
               IF frame.current_section # <<>>
               THEN Append(frame.sections, frame.current_section[1])
               ELSE frame.sections
         /\ Len(frame'.current_section) = 1
         /\ frame'.current_section[1].contentBlocks = <<>>
    ELSE /\ frame'.sections = frame.sections
         /\ Len(frame'.current_section) = Len(frame.current_section)

C5_Return ==
    LET headers == Ascending(HeadersIn(blocks, frame.start_index))
    IN  /\ IF frame.brk THEN IsBoundary(blocks, frame.i)
           ELSE frame.i >= Len(blocks)
        /\ result'.sections =
              IF frame.current_section # <<>>
              THEN Append(frame.sections, frame.current_section[1])
              ELSE frame.sections
        /\ Len(result'.sections) = Len(headers)
        /\ \A k \in 1..Len(headers) :
              LET m == MatchSectionHeader(StrippedText(blocks, headers[k]))
              IN  /\ result'.sections[k].number = m.g1
                  /\ result'.sections[k].title = Strip(m.g2)

C5_SectionClosure ==
    [][pc = "sections" =>
          /\ C5_OpenNotInResult
          /\ pc' = "sections" => C5_Iteration
          /\ pc' # "sections" => C5_Return]_vars

\* mid-scan: one section closed into the list, another one open with content
C5_Witness ==
    /\ mode = "stage"
    /\ pc = "sections"
    /\ Len(frame.sections) = 1
    /\ frame.current_section # <<>>
    /\ frame.current_section[1].contentBlocks # <<>>
    /\ frame.sections[1].number # frame.current_section[1].number

(***************************************************************************)
(* C6: in a parse, the section stage never scans past the first boundary   *)
(* block r at or after its cursor; it returns cursor r, its sections are   *)
(* those of the blocks before r alone, and the reference stage, started at *)
(* r, takes block r as its header.                                         *)
(***************************************************************************)
C6_SectionSide ==
    LET r == FirstBoundary(blocks, cursor)
    IN  /\ frame.i <= r
        /\ pc' = "references" =>
              /\ cursor' = r
              /\ frame'.start_index = r
              /\ result'.sections =
                    ValueOf("sections",
                            RunStage(src, "sections", SubSeq(blocks, 1, r),
                                     SectionsInit(cursor)))

C6_ReferenceSide ==
    /\ frame'.found_references_header
    /\ frame'.references = <<>>
    /\ frame'.current_ref_text = ""
    /\ frame'.i = frame.i + 1

C6_BoundaryEndsScan ==
    [][/\ (pc = "sections" /\ HasBoundary(blocks, cursor)) => C6_SectionSide
       /\ (/\ pc = "references"
           /\ pc' = "references"
           /\ frame.i = frame.start_index
           /\ IsBoundary(blocks, frame.i)) => C6_ReferenceSide]_vars

\* a parse with sections before the boundary and references after it
C6_Witness ==
    /\ mode = "pipeline"
    /\ pc = "done"
    /\ result.sections # <<>>
    /\ result.references # <<>>
    /\ cursor < Len(blocks)
    /\ IsBoundary(blocks, cursor)

(***************************************************************************)
(* C7 (as stated): the section stage returns as its cursor the index of    *)
(* the boundary block, or the length of the block sequence when there is   *)
(* no boundary block.                                                      *)
(***************************************************************************)
C7_CursorAtBoundaryOrEnd ==
    [][(pc = "sections" /\ pc' # "sections") =>
          cursor' = ScanEnd(blocks, frame.start_index)]_vars

(***************************************************************************)
(* C8: the k-th returned section (0-based) has order k and id section_k,   *)
(* its j-th content block has order j and id block_j, so the ids are       *)
(* pairwise distinct, in the PDF and in the DOCX variant.                  *)
(***************************************************************************)
C8_Numbered(items, prefix) ==
    /\ \A k \in 1..Len(items) :
          /\ items[k].order = k - 1
          /\ items[k].id = prefix \o IntToStr(k - 1)
    /\ \A j, k \in 1..Len(items) : j # k => items[j].id # items[k].id

C8_OrdersAndIds ==
    StageReturned("sections") =>
        /\ C8_Numbered(result.sections, "section_")
        /\ \A k \in 1..Len(result.sections) :
              C8_Numbered(result.sections[k].contentBlocks, "block_")

\* a DOCX result with two sections, the first holding a text block, an
\* image placeholder and another text block
C8_Witness ==
    /\ StageReturned("sections")
    /\ src = "docx"
    /\ Len(result.sections) = 2
    /\ Len(result.sections[1].contentBlocks) = 3
    /\ result.sections[1].contentBlocks[2].type = "image"
    /\ result.sections[1].contentBlocks[3].type = "text"

(***************************************************************************)
(* C9: a non-blank, non-header block scanned while no section is open      *)
(* changes neither the result list nor the open section, and the returned  *)
(* sections are those of the scan started at the first header block.       *)
(***************************************************************************)
C9_FirstHeaderOrEnd(bs, s) ==
    IF HeadersIn(bs, s) = {} THEN ScanEnd(bs, s) ELSE MinOf(HeadersIn(bs, s))

C9_PreambleDropped ==
    [][/\ (/\ pc = "sections"
           /\ pc' = "sections"
           /\ frame.current_section = <<>>
           /\ NonBlank(blocks, frame.i)
           /\ ~IsHeader(blocks, frame.i)
           /\ ~IsBoundary(blocks, frame.i)) =>
              /\ frame'.sections = <<>>
              /\ frame'.current_section = <<>>
              /\ frame'.i = frame.i + 1
       /\ (pc = "sections" /\ pc' # "sections") =>
              /\ HeadersIn(blocks, frame.start_index) = {} =>
                    result'.sections = <<>>
              /\ result'.sections =
                    ValueOf("sections",
                            RunStage(src, "sections", blocks,
                                     SectionsInit(C9_FirstHeaderOrEnd(
                                         blocks, frame.start_index))))]_vars

\* a returned section list whose first header was preceded, inside the scan,
\* by a body block
C9_Witness ==
    /\ StageReturned("sections")
    /\ result.sections # <<>>
    /\ \E i \in frame.start_index..(Len(blocks) - 1) :
          /\ i < MinOf(HeadersIn(blocks, frame.start_index))
          /\ NonBlank(blocks, i)

(***************************************************************************)
(* C10: the k-th returned reference was started by the k-th [N] marker     *)
(* block after the References header: its order is N - 1 and its text      *)
(* begins with the text that follows the marker on that block.             *)
(***************************************************************************)
C10_MarkersAfterHeader(bs, s) ==
    IF HasBoundary(bs, s)
    THEN {i \in (FirstBoundary(bs, s) + 1)..(Len(bs) - 1) : IsMarker(bs, i)}
    ELSE {}

\* the number between the brackets of a marker text
C10_MarkerNumber(text) == StrToInt(SubSeq(text, 2, IndexIn(text, "]", 1) - 1))

\* the text after the closing bracket of a marker text
C10_AfterMarker(text) ==
    Strip(SubSeq(text, IndexIn(text, "]", 1) + 1, Len(text)))

C10_OrderFromMarker ==
    StageReturned("references") =>
        LET markers == Ascending(C10_MarkersAfterHeader(blocks, frame.start_index))
        IN  \A k \in 1..Len(result.references) :
                /\ k <= Len(markers)
                /\ result.references[k].order =
                      C10_MarkerNumber(StrippedText(blocks, markers[k])) - 1
                /\ StartsWith(result.references[k].text,
                              C10_AfterMarker(StrippedText(blocks, markers[k])))

\* marker [2] met before marker [1], the first reference continued on a
\* second block
C10_Witness ==
    /\ StageReturned("references")
    /\ Len(result.references) = 2
    /\ result.references[1].order = 1
    /\ result.references[2].order = 0
    /\ result.references[1].text # C10_AfterMarker(MarkerText)

(***************************************************************************)
(* C11 (as stated): for the blocks References, [2] Bravo, [1] Alpha the    *)
(* reference stage returns Alpha (order 0) first and Bravo (order 1)       *)
(* second; in general the returned sequence is in the order of the bracket *)
(* numbers, not in scan order.                                             *)
(***************************************************************************)
C11_TextsOf(bs) == [k \in 1..Len(bs) |-> bs[k].text]

C11_Example == <<ReferencesText, MarkerText, MarkerOneText>>

C11_SortedByBracketNumber ==
    StageReturned("references") =>
        /\ \A k \in 1..(Len(result.references) - 1) :
              result.references[k].order <= result.references[k + 1].order
        /\ (C11_TextsOf(blocks) = C11_Example /\ frame.start_index = 0) =>
              result.references =
                  <<[text |-> C10_AfterMarker(MarkerOneText), order |-> 0],
                    [text |-> C10_AfterMarker(MarkerText), order |-> 1]>>

(***************************************************************************)
(* C11 (amended): the returned sequence is in scan order, one reference    *)
(* per [N] marker block after the References header, and the order field   *)
(* of each reference is its bracket number minus one; for the blocks       *)
(* References, [2] Bravo, [1] Alpha it is Bravo (order 1), Alpha (order 0).*)
(***************************************************************************)
C11_ScanOrderBracketOrders ==
    StageReturned("references") =>
        LET markers == Ascending(C10_MarkersAfterHeader(blocks, frame.start_index))
        IN  /\ Len(result.references) = Len(markers)
            /\ [k \in 1..Len(markers) |-> result.references[k].order] =
               [k \in 1..Len(markers) |->
                   C10_MarkerNumber(StrippedText(blocks, markers[k])) - 1]
            /\ (C11_TextsOf(blocks) = C11_Example /\ frame.start_index = 0) =>
                  result.references =
                      <<[text |-> C10_AfterMarker(MarkerText), order |-> 1],
                        [text |-> C10_AfterMarker(MarkerOneText), order |-> 0]>>

\* the stage has returned for the blocks References, [2] Bravo, [1] Alpha
C11_Witness ==
    /\ StageReturned("references")
    /\ C11_TextsOf(blocks) = C11_Example
    /\ frame.start_index = 0
    /\ Len(result.references) = 2

(***************************************************************************)
(* C12: after the References header, the text of the reference started by  *)
(* a [N] marker block is the text after the marker followed by the texts   *)
(* of all non-blank non-marker blocks up to the next marker block (or the  *)
(* end of the input), in scan order, each joined by one space.             *)
(***************************************************************************)
\* the non-blank non-marker blocks between marker block m and the next
\* marker block
C12_Continuations(bs, s, m) ==
    LET later == {j \in C10_MarkersAfterHeader(bs, s) : j > m}
        stop == IF later = {} THEN Len(bs) ELSE MinOf(later)
    IN  Ascending({j \in (m + 1)..(stop - 1) :
                       NonBlank(bs, j) /\ ~IsMarker(bs, j)})

C12_MergedText(bs, s, m) ==
    LET cont == C12_Continuations(bs, s, m)
    IN  Join(<<C10_AfterMarker(StrippedText(bs, m))>>
             \o [k \in 1..Len(cont) |-> StrippedText(bs, cont[k])], " ")

C12_MultiLineMerge ==
    StageReturned("references") =>
        LET markers == Ascending(C10_MarkersAfterHeader(blocks, frame.start_index))
        IN  \A k \in 1..Len(markers) :
                /\ k <= Len(result.references)
                /\ result.references[k].text =
                      C12_MergedText(blocks, frame.start_index, markers[k])

\* a reference continued over two more blocks
C12_Witness ==
    /\ StageReturned("references")
    /\ Len(result.references) = 1
    /\ result.references[1].text =
          Join(<<C10_AfterMarker(MarkerText), BodyText, BodyText>>, " ")

(***************************************************************************)
(* C13 (as stated): the title stage collects the title-candidate blocks    *)
(* that follow each other from the cursor up to the first non-blank        *)
(* non-candidate block, which it does not consume; it returns their texts  *)
(* joined by one space and the index just after the last of them, or the   *)
(* start cursor when there is none.                                        *)
(***************************************************************************)
\* block i is a title candidate for the title stage of the source
C13_Candidate(s, bs, i) ==
    IF s = "pdf" THEN _is_title_block(At(bs, i), bs)
    ELSE _is_title_paragraph(At(bs, i))

\* the first non-blank non-candidate block in from..(to - 1), or to
C13_Stop(s, bs, from, to) ==
    LET stops == {i \in from..(to - 1) :
                     NonBlank(bs, i) /\ ~C13_Candidate(s, bs, i)}
    IN  IF stops = {} THEN to ELSE MinOf(stops)

\* the non-blank blocks in from..(to - 1) before the stop, in scan order
C13_Collected(s, bs, from, to) ==
    Ascending({i \in from..(C13_Stop(s, bs, from, to) - 1) : NonBlank(bs, i)})

\* the stage returned the title and the cursor of a scan of from..(to - 1)
C13_ReturnsScanOf(from, to) ==
    LET got == C13_Collected(src, blocks, from, to)
    IN  /\ result.title =
              Join([k \in 1..Len(got) |-> StrippedText(blocks, got[k])], " ")
        /\ cursor = IF got = <<>> THEN from ELSE got[Len(got)] + 1

C13_CollectsAllConsecutive ==
    StageReturned("title") =>
        C13_ReturnsScanOf(frame.start_index, Len(blocks))

(***************************************************************************)
(* C13 (amended): the same, for the candidates among the at most five      *)
(* blocks the stage examines from the cursor.                              *)
(***************************************************************************)
C13_CollectsWithinWindow ==
    StageReturned("title") =>
        C13_ReturnsScanOf(frame.start_index,
                          Min(frame.start_index + 5, Len(blocks)))

\* five candidates collected, a sixth candidate left at the returned cursor
C13_Witness ==
    /\ StageReturned("title")
    /\ Len(frame.title_lines) = 5
    /\ cursor = frame.start_index + 5
    /\ cursor < Len(blocks)
    /\ C13_Candidate(src, blocks, cursor)

(***************************************************************************)
(* C14 (as stated): a non-blank block the title stage examines is accepted *)
(* as a title candidate if and only if it is on page 0, its font size is   *)
(* at least 14pt or it is bold, its text has no roman-numeral/digit prefix *)
(* followed by a dot, and its lowercased text is none of abstract,         *)
(* introduction, keywords; the PDF and the DOCX stage use this same rule.  *)
(***************************************************************************)
\* the attributes of a block of either source; a PDF block carries no bold
\* attribute, a paragraph no page
C14_Page(s, b) == IF s = "pdf" THEN b.page ELSE 0

C14_Bold(s, b) ==
    IF s = "pdf" THEN FALSE ELSE \E r \in 1..Len(b.runs) : b.runs[r].bold

C14_LargeFont(s, b) ==
    IF s = "pdf" THEN b.size >= 14
    ELSE \E r \in 1..Len(b.runs) : b.runs[r].size >= 14

C14_Rule(s, b) ==
    /\ C14_Page(s, b) = 0
    /\ C14_LargeFont(s, b) \/ C14_Bold(s, b)
    /\ ~MatchNumberingPrefix(Strip(b.text))
    /\ Lower(Strip(b.text)) \notin {"abstract", "introduction", "keywords"}

C14_SameCandidateRule ==
    [][(pc = "title" /\ pc' = "title" /\ NonBlank(blocks, frame.i)) =>
          ((Len(frame'.title_lines) > Len(frame.title_lines))
              <=> C14_Rule(src, At(blocks, frame.i)))]_vars

(***************************************************************************)
(* C15 (as stated): the author stage scans from the cursor until the first *)
(* non-blank block that starts with abstract, introduction, "i." or "1."   *)
(* (in any case), or else until the first non-blank block that is not      *)
(* author-info and comes after a collected author-info line; blocks that   *)
(* are not author-info and come before any author-info line do not stop    *)
(* it.  The cursor returned is the index just after the last collected     *)
(* line, or the start cursor when no line was collected.                   *)
(***************************************************************************)
C15_StopWord(bs, i) ==
    /\ NonBlank(bs, i)
    /\ \E w \in {"abstract", "introduction", "i.", "1."} :
          StartsWith(Lower(StrippedText(bs, i)), w)

C15_AuthorInfo(bs, i) ==
    NonBlank(bs, i) /\ _looks_like_author_info(StrippedText(bs, i))

\* where a scan of from..(to - 1) stops
C15_Stop(bs, from, to) ==
    LET words == {i \in from..(to - 1) : C15_StopWord(bs, i)}
        others == {i \in from..(to - 1) :
                      /\ NonBlank(bs, i)
                      /\ ~C15_AuthorInfo(bs, i)
                      /\ \E j \in from..(i - 1) : C15_AuthorInfo(bs, j)}
    IN  IF words \cup others = {} THEN to ELSE MinOf(words \cup others)

C15_Collected(bs, from, to) ==
    Ascending({i \in from..(C15_Stop(bs, from, to) - 1) : C15_AuthorInfo(bs, i)})

C15_ReturnsScanOf(from, to) ==
    LET got == C15_Collected(blocks, from, to)
    IN  /\ frame.author_text_lines =
              [k \in 1..Len(got) |-> StrippedText(blocks, got[k])]
        /\ cursor = IF got = <<>> THEN from ELSE got[Len(got)] + 1

C15_StopsOnlyAtStopBlocks ==
    StageReturned("authors") =>
        C15_ReturnsScanOf(frame.start_index, Len(blocks))

(***************************************************************************)
(* C15 (amended): the same, within the at most ten blocks the stage        *)
(* examines from the cursor: the scan also ends after the tenth block.     *)
(***************************************************************************)
C15_StopsWithinWindow ==
    StageReturned("authors") =>
        C15_ReturnsScanOf(frame.start_index,
                          Min(frame.start_index + 10, Len(blocks)))

\* blocks that are not author-info were passed, an author line was collected
\* and the scan stopped at the block after it
C15_Witness ==
    /\ StageReturned("authors")
    /\ frame.brk
    /\ frame.author_text_lines # <<>>
    /\ cursor = frame.i
    /\ cursor > frame.start_index + 1
    /\ ~C15_StopWord(blocks, frame.i)
    /\ \E j \in frame.start_index..(cursor - 1) :
          NonBlank(blocks, j) /\ ~C15_AuthorInfo(blocks, j)

(***************************************************************************)
(* C16: the author stage returns one author per name match in the          *)
(* collected lines (joined by spaces), in extraction order; the i-th       *)
(* author carries the i-th name and the i-th e-mail address found, and the *)
(* empty string as e-mail when fewer than i addresses were found.          *)
(***************************************************************************)
C16_PairedByPosition ==
    StageReturned("authors") =>
        LET full_text == Join(frame.author_text_lines, " ")
            names == FindAllNames(full_text, 1)
            emails == FindAllEmails(full_text, 1)
        IN  /\ Len(result.authors) = Len(names)
            /\ \A i \in 1..Len(result.authors) :
                  /\ result.authors[i].name = names[i]
                  /\ i <= Len(emails) => result.authors[i].email = emails[i]
                  /\ i > Len(emails) => result.authors[i].email = ""
            /\ frame.author_text_lines = <<TwoNamesText, EmailText>> =>
                  /\ Len(result.authors) = 2
                  /\ result.authors[1].name = "Al Bo"
                  /\ result.authors[1].email = EmailText
                  /\ result.authors[2].name = "Cy Di"
                  /\ result.authors[2].email = ""

\* two names and one address on a later line: the first author takes the
\* address, the second has none
C16_Witness ==
    /\ StageReturned("authors")
    /\ frame.author_text_lines = <<TwoNamesText, EmailText>>
    /\ Len(result.authors) = 2
    /\ result.authors[1].email # ""
    /\ result.authors[2].email = ""

(***************************************************************************)
(* C17 (as stated): every author the author stage returns has as           *)
(* affiliation the first collected line that contains one of the keywords  *)
(* university, institute, department, college, lab (in any case), the     *)
(* same line for all authors, and the empty string only when no collected  *)
(* line contains one of them.                                              *)
(***************************************************************************)
C17_Keywords == {"university", "institute", "department", "college", "lab"}

C17_HasKeyword(line) == \E w \in C17_Keywords : Contains(Lower(line), w)

C17_AffiliationIsFirstKeywordLine ==
    StageReturned("authors") =>
        LET lines == frame.author_text_lines
            with == {k \in 1..Len(lines) : C17_HasKeyword(lines[k])}
        IN  \A i \in 1..Len(result.authors) :
                result.authors[i].affiliation =
                    IF with = {} THEN "" ELSE lines[MinOf(with)]

(***************************************************************************)
(* C18: when a block of the window of the abstract stage (the 30 blocks    *)
(* from the cursor) starts with "abstract" in any case, the stage takes    *)
(* no text from the first such block; it returns the texts of the non-     *)
(* blank blocks of the window after it, up to the first block that starts  *)
(* with keyword(s), index terms, introduction, "i." or "1.", joined by one *)
(* space, and the index just after the last block it took (just after the  *)
(* header when it took none); the stopping block is not consumed.          *)
(***************************************************************************)
C18_WindowEnd(bs, from) == Min(from + 30, Len(bs))

C18_Headers(bs, from) ==
    {i \in from..(C18_WindowEnd(bs, from) - 1) :
        NonBlank(bs, i) /\ StartsWith(Lower(StrippedText(bs, i)), "abstract")}

C18_StopWord(bs, i) ==
    /\ NonBlank(bs, i)
    /\ \E w \in {"keyword", "index terms", "introduction", "i.", "1."} :
          StartsWith(Lower(StrippedText(bs, i)), w)

\* the blocks accumulated after header block h
C18_Accumulated(bs, from, h) ==
    LET to == C18_WindowEnd(bs, from)
        stops == {i \in (h + 1)..(to - 1) : C18_StopWord(bs, i)}
        stop == IF stops = {} THEN to ELSE MinOf(stops)
    IN  Ascending({i \in (h + 1)..(stop - 1) : NonBlank(bs, i)})

C18_AbstractAfterHeader ==
    (StageReturned("abstract") /\ C18_Headers(blocks, frame.start_index) # {}) =>
        LET h == MinOf(C18_Headers(blocks, frame.start_index))
            acc == C18_Accumulated(blocks, frame.start_index, h)
        IN  /\ result.abstract =
                  Join([k \in 1..Len(acc) |-> StrippedText(blocks, acc[k])], " ")
            /\ cursor = IF acc = <<>> THEN h + 1 ELSE acc[Len(acc)] + 1

\* a header with text on its line, a block accumulated, the scan stopped at
\* a stop header that was not consumed
C18_Witness ==
    /\ StageReturned("abstract")
    /\ frame.brk
    /\ C18_Headers(blocks, frame.start_index) # {}
    /\ StrippedText(blocks, MinOf(C18_Headers(blocks, frame.start_index)))
          = AbstractLineText
    /\ result.abstract = BodyText
    /\ cursor = frame.i
    /\ C18_StopWord(blocks, cursor)

(***************************************************************************)
(* C19: when no block of the window of the abstract stage starts with      *)
(* "abstract", the stage returns the empty string and the cursor it was    *)
(* given: the keywords stage is called with that cursor, and the keywords, *)
(* the sections, the references and the final cursor of the parse are      *)
(* those of a parse that goes from the author stage straight to the        *)
(* keywords stage.                                                         *)
(***************************************************************************)
\* the cursor the abstract stage of the parse is given
C19_CursorBeforeAbstract ==
    LET title == RunStage(src, "title", blocks, TitleInit(0))
    IN  RunStage(src, "authors", blocks,
                 AuthorsInit(title.current_index)).current_index

\* the keywords, sections and references stages run from cursor c
C19_WithoutAbstract(c) ==
    LET kw == RunStage(src, "keywords", blocks, KeywordsInit(c))
        sec == RunStage(src, "sections", blocks, SectionsInit(kw.current_index))
        ref == RunStage(src, "references", blocks,
                        ReferencesInit(sec.current_index))
    IN  [keywords |-> KeywordsValue(kw), sections |-> SectionsValue(sec),
         references |-> ReferencesValue(ref), cursor |-> sec.current_index]

C19_EmptyAbstractIsValid ==
    (/\ mode = "pipeline"
     /\ pc = "done" \/ (pc = "keywords" /\ frame = KeywordsInit(cursor))
     /\ C18_Headers(blocks, C19_CursorBeforeAbstract) = {}) =>
        /\ result.abstract = ""
        /\ pc = "keywords" => cursor = C19_CursorBeforeAbstract
        /\ pc = "done" =>
              LET without == C19_WithoutAbstract(C19_CursorBeforeAbstract)
              IN  /\ result.keywords = without.keywords
                  /\ result.sections = without.sections
                  /\ result.references = without.references
                  /\ cursor = without.cursor

\* a parse whose only Abstract header lies past the window of the abstract
\* stage and whose keywords stage found keywords
C19_Witness ==
    /\ mode = "pipeline"
    /\ pc = "done"
    /\ C18_Headers(blocks, C19_CursorBeforeAbstract) = {}
    /\ \E i \in (C19_CursorBeforeAbstract + 30)..(Len(blocks) - 1) :
          StartsWith(Lower(StrippedText(blocks, i)), "abstract")
    /\ result.abstract = ""
    /\ result.keywords # ""

(***************************************************************************)
(* C20: when the keywords header the stage finds (the first non-blank      *)
(* block among the 20 from the cursor that starts with keyword(s) or index *)
(* terms) carries a separator and then text on its line, the stage returns *)
(* that text, stops at that block and returns the index just after it.     *)
(***************************************************************************)
\* the length of the header word a text starts with, 0 when it has none
C20_HeaderLen(text) ==
    IF StartsWith(Lower(text), "keywords") THEN 8
    ELSE IF StartsWith(Lower(text), "keyword") THEN 7
    ELSE IF StartsWith(Lower(text), "index terms") THEN 11
    ELSE 0

\* s without its leading separator characters (colon, space, dash)
RECURSIVE C20_DropSeparators(_)
C20_DropSeparators(s) ==
    IF s # "" /\ Char(s, 1) \in {":", " ", "-", EmDash}
    THEN C20_DropSeparators(SubSeq(s, 2, Len(s))) ELSE s

\* what follows the header word and the separators; "" when the header word
\* is not followed by a separator
C20_Trailing(text) ==
    LET rest == SubSeq(text, C20_HeaderLen(text) + 1, Len(text))
    IN  IF C20_DropSeparators(rest) = rest THEN ""
        ELSE C20_DropSeparators(rest)

C20_Headers(bs, from) ==
    {i \in from..(Min(from + 20, Len(bs)) - 1) :
        NonBlank(bs, i) /\ C20_HeaderLen(StrippedText(bs, i)) > 0}

C20_SameLineKeywords ==
    (StageReturned("keywords") /\ C20_Headers(blocks, frame.start_index) # {}) =>
        LET h == MinOf(C20_Headers(blocks, frame.start_index))
            trailing == C20_Trailing(StrippedText(blocks, h))
        IN  trailing # "" =>
                /\ result.keywords = trailing
                /\ frame.brk /\ frame.i = h
                /\ cursor = h + 1

\* the header with the dash at the cursor, a block left after it
C20_Witness ==
    /\ StageReturned("keywords")
    /\ result.keywords = "a, b"
    /\ cursor = frame.start_index + 1
    /\ StrippedText(blocks, cursor - 1) = DashKeywordsText
    /\ cursor < Len(blocks)
    /\ NonBlank(blocks, cursor)

(***************************************************************************)
(* C21: when the keywords header the stage finds has no text after the     *)
(* header word on its line, the stage consumes the header; the next non-   *)
(* blank block of the window, alone, is the keyword string and the cursor  *)
(* is just after it, unless that block starts with introduction, "i." or   *)
(* "1.": then the keywords are empty and the cursor is just after the      *)
(* header.                                                                 *)
(***************************************************************************)
\* the header word of the text is followed by a separator and more text
C21_HasSameLineContent(text) ==
    LET rest == SubSeq(text, C20_HeaderLen(text) + 1, Len(text))
    IN  Len(rest) >= 2 /\ Char(rest, 1) \in {":", " ", "-", EmDash}

C21_Introduction(bs, i) ==
    \E w \in {"introduction", "i.", "1."} :
        StartsWith(Lower(StrippedText(bs, i)), w)

C21_NextBlockKeywords ==
    (StageReturned("keywords") /\ C20_Headers(blocks, frame.start_index) # {}) =>
        LET h == MinOf(C20_Headers(blocks, frame.start_index))
            to == Min(frame.start_index + 20, Len(blocks))
            after == {i \in (h + 1)..(to - 1) : NonBlank(blocks, i)}
        IN  ~C21_HasSameLineContent(StrippedText(blocks, h)) =>
                IF after = {} \/ C21_Introduction(blocks, MinOf(after))
                THEN result.keywords = "" /\ cursor = h + 1
                ELSE /\ result.keywords = StrippedText(blocks, MinOf(after))
                     /\ cursor = MinOf(after) + 1

\* a header alone on its line, blank blocks, then an introduction header that
\* stops the stage and is left to the section stage
C21_Witness ==
    /\ StageReturned("keywords")
    /\ frame.brk
    /\ result.keywords = ""
    /\ cursor > frame.start_index
    /\ StrippedText(blocks, cursor - 1) = KeywordsAloneText
    /\ frame.i > cursor
    /\ StrippedText(blocks, frame.i) = HeaderText

(***************************************************************************)
(* C22 (as stated): a blank block only moves the scan of a stage on, and   *)
(* the record of a parse is the record of the parse of the same blocks     *)
(* with the blank blocks removed.                                          *)
(***************************************************************************)
\* the record the six stages return for the blocks bs
C22_ParseOf(s, bs) ==
    LET title == RunStage(s, "title", bs, TitleInit(0))
        authors == RunStage(s, "authors", bs, AuthorsInit(title.current_index))
        abstract == RunStage(s, "abstract", bs,
                             AbstractInit(authors.current_index))
        kw == RunStage(s, "keywords", bs, KeywordsInit(abstract.current_index))
        sec == RunStage(s, "sections", bs, SectionsInit(kw.current_index))
        ref == RunStage(s, "references", bs, ReferencesInit(sec.current_index))
    IN  [title |-> TitleValue(title), authors |-> AuthorsValue(authors),
         abstract |-> AbstractValue(abstract), keywords |-> KeywordsValue(kw),
         sections |-> SectionsValue(sec), references |-> ReferencesValue(ref)]

C22_WithoutBlanks(bs) == SelectSeq(bs, LAMBDA b : Strip(b.text) # "")

\* a step of a stage on a blank block changes nothing but the loop index
C22_BlankOnlyMovesOn ==
    [][(pc \in StageNames /\ pc' = pc /\ ~NonBlank(blocks, frame.i)) =>
          frame' = [frame EXCEPT !.i = frame.i + 1]]_vars

C22_SameRecordWithoutBlanks ==
    (mode = "pipeline" /\ pc = "done") =>
        \A k \in DOMAIN result :
            result[k] = C22_ParseOf(src, C22_WithoutBlanks(blocks))[k]

C22_BlanksIgnorable == C22_BlankOnlyMovesOn /\ []C22_SameRecordWithoutBlanks

(***************************************************************************)
(* C22 (amended): a blank block only moves the scan of a stage on; it      *)
(* still counts as one of the blocks of the window of the stage, and the   *)
(* record is that of the blocks without the blank ones for every document  *)
(* of at most five blocks, the length the window of the title stage covers.*)
(***************************************************************************)
C22_SameRecordWithinWindow ==
    (mode = "pipeline" /\ pc = "done" /\ Len(blocks) <= 5) =>
        \A k \in DOMAIN result :
            result[k] = C22_ParseOf(src, C22_WithoutBlanks(blocks))[k]

C22_BlanksSkippedButCounted ==
    C22_BlankOnlyMovesOn /\ []C22_SameRecordWithinWindow

\* a parse of a short document whose title and author line are separated by
\* a blank block
C22_Witness ==
    /\ mode = "pipeline"
    /\ pc = "done"
    /\ Len(blocks) <= 5
    /\ \E i \in 1..(Len(blocks) - 2) : ~NonBlank(blocks, i)
    /\ result.title # ""
    /\ result.authors # <<>>

(***************************************************************************)
(* C23: no stage fails.  Every iteration of a stage's loop moves the loop  *)
(* index one block on, within the input, or ends the loop, so every stage  *)
(* returns; and for the empty sequence, a sequence of blank blocks only, a *)
(* sequence in which no block is recognised by any stage, and a start      *)
(* cursor at or past the end, the stage returns its empty value and the    *)
(* cursor it was given.                                                    *)
(***************************************************************************)
\* no stage recognises block i as a title, author line, header or marker
C23_Unrecognised(s, bs, i) ==
    \/ ~NonBlank(bs, i)
    \/ /\ ~C13_Candidate(s, bs, i)
       /\ ~C15_AuthorInfo(bs, i)
       /\ ~C15_StopWord(bs, i)
       /\ ~C18_StopWord(bs, i)
       /\ C20_HeaderLen(StrippedText(bs, i)) = 0
       /\ ~IsHeader(bs, i)
       /\ ~IsBoundary(bs, i)

C23_NothingToExtract(s, bs, start) ==
    \/ start >= Len(bs)
    \/ \A i \in 0..(Len(bs) - 1) : C23_Unrecognised(s, bs, i)

C23_LoopAdvances ==
    [][(pc \in StageNames /\ pc' = pc) =>
          \/ frame'.i = frame.i + 1 /\ frame'.i <= Len(blocks)
          \/ pc # "references" /\ frame'.brk]_vars

C23_EmptyResult ==
    (mode = "stage" /\ returned # "none"
     /\ C23_NothingToExtract(src, blocks, frame.start_index)) =>
        /\ result = _init_result
        /\ cursor = frame.start_index

C23_StagesNeverFail == C23_LoopAdvances /\ []C23_EmptyResult

\* a stage called with a start cursor past the end of a sequence that holds
\* a block it would recognise
C23_Witness ==
    /\ mode = "stage"
    /\ returned # "none"
    /\ frame.start_index > Len(blocks)
    /\ \E i \in 0..(Len(blocks) - 1) : ~C23_Unrecognised(src, blocks, i)

(***************************************************************************)
(* The entry of the parser (IEEEDocumentParser.parse_document and the      *)
(* module-level parse_document) and the /parse endpoint of app.py.         *)
(* A file is modelled by the format its bytes have and by the blocks the   *)
(* document library reads from it.                                         *)
(***************************************************************************)
\* longest document of an uploaded file
MaxFileBlocks == 2

\* str.endswith
EndsWith(s, suffix) ==
    Len(s) >= Len(suffix) /\ SubSeq(s, Len(s) - Len(suffix) + 1, Len(s)) = suffix

FileTexts == {TitleText, AbstractText, HeaderText, BodyText, ReferencesText}

\* the uploaded bytes: a PDF, a DOCX, or bytes that are neither
FileData ==
    {[format |-> f, content |-> c] :
        f \in {"pdf"}, c \in SeqsUpTo(BlocksOf("pdf", FileTexts), MaxFileBlocks)}
    \cup {[format |-> f, content |-> c] :
        f \in {"docx"}, c \in SeqsUpTo(BlocksOf("docx", FileTexts), MaxFileBlocks)}
    \cup {[format |-> "junk", content |-> <<>>]}

FileTypes == {"pdf", "docx", "PDF", "txt", ""}

FileNames == {"", "a.pdf", "A.PDF", "b.docx", "B.Docx", "c.txt", "pdf", "d.pdf.txt"}

\* "Determine file type" of the /parse handler, "" when it is neither
FileTypeOfAnywhere(filename) ==
    IF Contains(Lower(filename), ".pdf") THEN "pdf"
    ELSE IF Contains(Lower(filename), ".docx") THEN "docx"
    ELSE ""

FileTypeOf(filename) ==
    IF EndsWith(Lower(filename), ".pdf") THEN "pdf"
    ELSE IF EndsWith(Lower(filename), ".docx") THEN "docx"
    ELSE ""

ParseRequests ==
    {[endpoint |-> "/parse", has_file |-> h, filename |-> n, file_data |-> d,
      parser_importable |-> p] :
        h \in BOOLEAN, n \in FileNames, d \in FileData, p \in BOOLEAN}

Raised(exception, message) == [exception |-> exception, message |-> message]

\* the state of the parser before parse_document is called
ParserIdle ==
    /\ src = "none"
    /\ blocks = <<>>
    /\ mode = "pipeline"
    /\ cursor = 0
    /\ result = _init_result
    /\ returned = "none"

\* a /parse request arrives
InitParseRequest ==
    /\ ParserIdle
    /\ pc = "/parse"
    /\ frame = [file_type |-> ""]
    /\ request \in ParseRequests
    /\ LIBREOFFICE_AVAILABLE \in BOOLEAN
    /\ files = {}
    /\ response = NoResponse
    /\ runs = <<>>
    /\ metrics = <<>>
    /\ calls = <<>>
    /\ parsers = <<>>

\* the module-level parse_document is called directly
InitParseCall ==
    /\ ParserIdle
    /\ pc = "parse_document"
    /\ frame \in [file_data : FileData, file_type : FileTypes]
    /\ ServiceIdle

InitParse == InitParseRequest \/ InitParseCall

\* the /parse handler up to the call of the parser
ParseEndpoint ==
    /\ pc = "/parse"
    /\ IF ~request.has_file
       THEN /\ response' = [status |-> 400, success |-> FALSE,
                            error |-> "No file uploaded"]
            /\ pc' = "done"
            /\ frame' = frame
       ELSE IF request.filename = ""
       THEN /\ response' = [status |-> 400, success |-> FALSE,
                            error |-> "No file selected"]
            /\ pc' = "done"
            /\ frame' = frame
       ELSE IF FileTypeOf(request.filename) = ""
       THEN /\ response' = [status |-> 400, success |-> FALSE,
                            error |-> "Unsupported file type. Please upload PDF or DOCX."]
            /\ pc' = "done"
            /\ frame' = frame
       ELSE IF ~request.parser_importable
       THEN /\ response' = [status |-> 500, success |-> FALSE,
                            error |-> "Document parser not available"]
            /\ pc' = "done"
            /\ frame' = frame
       ELSE /\ response' = response
            /\ pc' = "parse_document"
            /\ frame' = [file_data |-> request.file_data,
                         file_type |-> FileTypeOf(request.filename)]
    /\ UNCHANGED <<src, blocks, mode, cursor, result, returned>>
    /\ UNCHANGED <<LIBREOFFICE_AVAILABLE, request, files, runs, metrics>>
    /\ UNCHANGED concurrentVars

\* parse_document: the dispatch on file_type, and the start of _parse_pdf or
\* _parse_docx up to the call of the title stage
ParseDocument ==
    /\ pc = "parse_document"
    /\ IF frame.file_type \in {"pdf", "docx"}
       THEN IF frame.file_data.format = frame.file_type
            THEN /\ src' = frame.file_type
                 /\ blocks' = frame.file_data.content
                 /\ pc' = "title"
                 /\ frame' = TitleInit(0)
            ELSE /\ pc' = "raised"
                 /\ frame' = Raised("Exception", "the document library cannot open the file")
                 /\ UNCHANGED <<src, blocks>>
       ELSE /\ pc' = "raised"
            /\ frame' = Raised("ValueError", "Unsupported file type: " \o frame.file_type)
            /\ UNCHANGED <<src, blocks>>
    /\ mode' = "pipeline"
    /\ cursor' = 0
    /\ result' = _init_result
    /\ UNCHANGED returned
    /\ UNCHANGED serviceVars
    /\ UNCHANGED concurrentVars

\* "except Exception" of the /parse handler around the call of the parser
ParseFailed ==
    /\ pc = "raised"
    /\ request.endpoint = "/parse"
    /\ response' = [status |-> 500, success |-> FALSE,
                    error |-> "Document parsing failed: " \o frame.message]
    /\ pc' = "done"
    /\ UNCHANGED <<src, blocks, mode, frame, cursor, result, returned>>
    /\ UNCHANGED <<LIBREOFFICE_AVAILABLE, request, files, runs, metrics>>
    /\ UNCHANGED concurrentVars

\* the /parse handler after the parser returned
ParseRespond ==
    /\ pc = "done"
    /\ request.endpoint = "/parse"
    /\ response = NoResponse
    /\ response' = [status |-> 200, success |-> TRUE, data |-> result]
    /\ UNCHANGED parserVars
    /\ UNCHANGED <<LIBREOFFICE_AVAILABLE, request, files, runs, metrics>>
    /\ UNCHANGED concurrentVars

NextParse ==
    \/ ParseEndpoint
    \/ ParseDocument
    \/ ParseFailed
    \/ ParseRespond
    \/ Next

\* parse requests and direct calls of the parser
SpecParse == InitParse /\ [][NextParse]_vars

\* C24: parse_document called with a file type other than 'pdf' and 'docx'
\* raises the unsupported-file-type error, returns no record and runs no
\* stage; /parse answers a file whose name ends in neither .pdf nor .docx
\* with status 400 and does not call the parser.
C24_Supported(filename) ==
    EndsWith(Lower(filename), ".pdf") \/ EndsWith(Lower(filename), ".docx")

C24_CallFails ==
    [][(pc = "parse_document" /\ frame.file_type \notin {"pdf", "docx"})
          => /\ pc' = "raised"
             /\ frame'.exception = "ValueError"
             /\ StartsWith(frame'.message, "Unsupported file type")
             /\ result' = _init_result
             /\ returned' = "none"]_vars

C24_NoStageAfterFailure ==
    (pc = "raised" /\ frame.exception = "ValueError")
        => /\ returned = "none"
           /\ result = _init_result
           /\ ~ENABLED Next

C24_EndpointRejects ==
    (request.endpoint = "/parse" /\ request.has_file
        /\ ~C24_Supported(request.filename) /\ pc # "/parse")
        => /\ response.status = 400
           /\ pc = "done"
           /\ src = "none"
           /\ returned = "none"
           /\ result = _init_result

C24_UnsupportedTypeRejected ==
    C24_CallFails /\ []C24_NoStageAfterFailure /\ []C24_EndpointRejects

\* parse_document was called directly with an unsupported file type
C24_Witness ==
    /\ request = NoRequest
    /\ pc = "raised"
    /\ frame.exception = "ValueError"
    /\ frame.message = "Unsupported file type: PDF"

(***************************************************************************)
(* The PDF normalizer: _group_words_into_blocks, called by _parse_pdf for  *)
(* the words of each page in turn.  One iteration of its loop is one step. *)
(***************************************************************************)
\* most words of a document
MaxWords == 3

Abs(x) == IF x < 0 THEN 0 - x ELSE x

Word(text, top, size) == [text |-> text, top |-> top, size |-> size]

\* the words pdfplumber hands over: two texts and a blank one, on lines that
\* are 3, 5 and 2 units apart, in two font sizes
WordTexts == {"a", "b", " "}

WordTops == {0, 3, 5}

WordSizes == {9, 18}

Words == {Word(t, y, z) : t \in WordTexts, y \in WordTops, z \in WordSizes}

NewBlock(text, page_num, top, size) ==
    [text |-> text, page |-> page_num, top |-> top, size |-> size]

\* the locals before the loop; for an empty word list the function returns []
\* at once, which is what the loop and the last append give for this frame
GroupInit(words, page_num) ==
    [words |-> words, page_num |-> page_num, i |-> 0, blocks |-> <<>>,
     current_block |-> IF words = <<>> THEN NewBlock("", page_num, 0, 12)
                       ELSE NewBlock("", page_num, words[1].top, words[1].size)]

GroupLoopDone(f) == f.i >= Len(f.words)

\* "for word in words": the body of the loop for the next word
GroupStepChained(f) ==
    LET word == f.words[f.i + 1]
        cur == f.current_block
    IN  IF Abs(word.top - cur.top) < 5
        THEN [f EXCEPT !.i = f.i + 1,
                       !.current_block.text = cur.text \o word.text \o " ",
                       !.current_block.top = word.top]
        ELSE [f EXCEPT !.i = f.i + 1,
                       !.blocks = IF Strip(cur.text) # "" THEN Append(f.blocks, cur)
                                  ELSE f.blocks,
                       !.current_block = NewBlock(word.text \o " ", f.page_num,
                                                  word.top, word.size)]

GroupStep(f) ==
    LET word == f.words[f.i + 1]
        cur == f.current_block
    IN  IF Abs(word.top - cur.top) < 5
        THEN [f EXCEPT !.i = f.i + 1,
                       !.current_block.text = cur.text \o word.text \o " "]
        ELSE [f EXCEPT !.i = f.i + 1,
                       !.blocks = IF Strip(cur.text) # "" THEN Append(f.blocks, cur)
                                  ELSE f.blocks,
                       !.current_block = NewBlock(word.text \o " ", f.page_num,
                                                  word.top, word.size)]

\* "Add last block", then the returned list
GroupValueWithoutLast(f) == f.blocks

GroupValue(f) ==
    IF Strip(f.current_block.text) # "" THEN Append(f.blocks, f.current_block)
    ELSE f.blocks

\* the word lists of the pages of a document of one or two pages
PagesOf(words) ==
    {<<words>>} \cup {<<SubSeq(words, 1, k), SubSeq(words, k + 1, Len(words))>> :
                         k \in 1..(Len(words) - 1)}

\* the locals of _parse_pdf and of the normalizer it calls for a page
GroupCall(pages, page_num) ==
    [pages |-> pages, call |-> GroupInit(pages[page_num + 1], page_num)]

\* _parse_pdf calls the normalizer for the words of the first page
InitWords ==
    /\ src = "pdf"
    /\ blocks = <<>>
    /\ mode = "normalize"
    /\ pc = "_group_words_into_blocks"
    /\ \E words \in SeqsUpTo(Words, MaxWords) :
          \E pages \in PagesOf(words) : frame = GroupCall(pages, 0)
    /\ cursor = 0
    /\ result = _init_result
    /\ returned = "none"
    /\ ServiceIdle

GroupWord ==
    /\ pc = "_group_words_into_blocks"
    /\ ~GroupLoopDone(frame.call)
    /\ frame' = [frame EXCEPT !.call = GroupStep(frame.call)]
    /\ UNCHANGED <<src, blocks, mode, pc, cursor, result, returned>>
    /\ UNCHANGED serviceVars
    /\ UNCHANGED concurrentVars

\* the code after the loop, the return, all_text_blocks.extend(...), and the
\* call for the next page if there is one
GroupReturn ==
    /\ pc = "_group_words_into_blocks"
    /\ GroupLoopDone(frame.call)
    /\ blocks' = blocks \o GroupValue(frame.call)
    /\ returned' = "_group_words_into_blocks"
    /\ IF frame.call.page_num + 1 < Len(frame.pages)
       THEN /\ frame' = GroupCall(frame.pages, frame.call.page_num + 1)
            /\ pc' = pc
       ELSE /\ frame' = frame
            /\ pc' = "done"
    /\ UNCHANGED <<src, mode, cursor, result>>
    /\ UNCHANGED serviceVars
    /\ UNCHANGED concurrentVars

NextWords == GroupWord \/ GroupReturn

\* the normalizer alone, on the pages of a document
SpecWords == InitWords /\ [][NextWords]_vars

(***************************************************************************)
(* C25: a word joins the current block iff its vertical position is less   *)
(* than 5 units from the position of the block's anchor, the first word of *)
(* the block; otherwise it starts a new block and is its anchor; a block   *)
(* has the font size of its anchor and the page index of the page.         *)
(***************************************************************************)
\* the index of the anchor that follows the anchor at index a: the first
\* later word 5 or more units from it, Len(words) + 1 when there is none
RECURSIVE C25_NextAnchor(_, _, _)
C25_NextAnchor(words, a, j) ==
    IF j > Len(words) THEN j
    ELSE IF Abs(words[j].top - words[a].top) < 5 THEN C25_NextAnchor(words, a, j + 1)
    ELSE j

RECURSIVE C25_TextOf(_, _, _)
C25_TextOf(words, from, to) ==
    IF from >= to THEN ""
    ELSE words[from].text \o " " \o C25_TextOf(words, from + 1, to)

\* the blocks the rule gives for the words from anchor a on, blank ones left out
RECURSIVE C25_BlocksFrom(_, _, _)
C25_BlocksFrom(words, page_num, a) ==
    IF a > Len(words) THEN <<>>
    ELSE LET n == C25_NextAnchor(words, a, a + 1)
             text == C25_TextOf(words, a, n)
             rest == C25_BlocksFrom(words, page_num, n)
         IN  IF Strip(text) = "" THEN rest
             ELSE <<[text |-> text, page |-> page_num,
                     top |-> words[a].top, size |-> words[a].size]>> \o rest

\* the blocks the rule gives for the pages from page p (1-based) on
RECURSIVE C25_BlocksOfPages(_, _)
C25_BlocksOfPages(pages, p) ==
    IF p > Len(pages) THEN <<>>
    ELSE C25_BlocksFrom(pages[p], p - 1, 1) \o C25_BlocksOfPages(pages, p + 1)

C25_GroupedByAnchor ==
    pc = "done" => blocks = C25_BlocksOfPages(frame.pages, 1)

\* a returned block whose second word is on another line than its first, and
\* whose third word is near the second but starts a new block
C25_Witness ==
    /\ pc = "done"
    /\ Len(frame.pages) = 1
    /\ Len(frame.pages[1]) = 3
    /\ frame.pages[1][1].top = 0
    /\ frame.pages[1][2].top = 3
    /\ frame.pages[1][3].top = 5
    /\ frame.pages[1][1].size # frame.pages[1][2].size
    /\ Len(blocks) = 2

(***************************************************************************)
(* C26: the normalizer keeps the reading order and loses no text: the      *)
(* texts of the returned blocks, put one after the other, are the input    *)
(* words in their order, each non-blank word once, and no block is blank.  *)
(***************************************************************************)
\* str.split(): the maximal runs of non-space characters of s, from position p
RECURSIVE C26_Split(_, _, _)
C26_Split(s, p, token) ==
    IF p > Len(s) THEN (IF token = "" THEN <<>> ELSE <<token>>)
    ELSE IF IsSpace(Char(s, p))
         THEN (IF token = "" THEN <<>> ELSE <<token>>) \o C26_Split(s, p + 1, "")
         ELSE C26_Split(s, p + 1, token \o Char(s, p))

RECURSIVE C26_Concat(_)
C26_Concat(bs) == IF bs = <<>> THEN "" ELSE bs[1].text \o C26_Concat(Tail(bs))

RECURSIVE C26_NonBlankTexts(_)
C26_NonBlankTexts(words) ==
    IF words = <<>> THEN <<>>
    ELSE (IF Strip(words[1].text) = "" THEN <<>> ELSE <<words[1].text>>)
         \o C26_NonBlankTexts(Tail(words))

RECURSIVE C26_AllWords(_)
C26_AllWords(pages) ==
    IF pages = <<>> THEN <<>> ELSE pages[1] \o C26_AllWords(Tail(pages))

C26_OrderKeptNothingLost ==
    pc = "done" =>
        /\ C26_Split(C26_Concat(blocks), 1, "") = C26_NonBlankTexts(C26_AllWords(frame.pages))
        /\ \A k \in 1..Len(blocks) :
              /\ Strip(blocks[k].text) # ""
              /\ C26_Split(blocks[k].text, 1, "") # <<>>

\* a page of two words on two lines, the second one blank and its block
\* dropped, and a second page of one word
C26_Witness ==
    /\ pc = "done"
    /\ Len(frame.pages) = 2
    /\ Len(frame.pages[1]) = 2
    /\ frame.pages[1][1].text = "b"
    /\ frame.pages[1][2].text = " "
    /\ frame.pages[1][1].top = 0
    /\ frame.pages[1][2].top = 5
    /\ frame.pages[2][1].text = "a"
    /\ Len(blocks) = 2
    /\ blocks[2].page = 1

(***************************************************************************)
(* app.py: the PDF conversion service.  base64.b64decode as the handlers   *)
(* call it (non-strict): characters outside the alphabet are skipped,      *)
(* padding that completes a quad ends the input, and input that ends       *)
(* inside a quad is an error.  A decoding keeps the number of bytes and    *)
(* the first two of them.                                                  *)
(***************************************************************************)
MAX_FILE_SIZE_MB == 50

MAX_FILE_SIZE_BYTES == MAX_FILE_SIZE_MB * 1024 * 1024

CONVERSION_TIMEOUT_SECONDS == 30

Base64Alphabet == UpperLetters \o LowerLetters \o Digits \o "+/"

\* a docx_data string: head, then zeros times "AAAA", then tail
Text(head, zeros, tail) == [head |-> head, zeros |-> zeros, tail |-> tail]

B64Start == [quad_pos |-> 0, leftchar |-> 0, pads |-> 0, size |-> 0,
             first |-> <<>>, done |-> FALSE]

B64Emit(st, byte, quad_pos, leftchar) ==
    [st EXCEPT !.size = st.size + 1,
               !.first = IF Len(st.first) < 2 THEN Append(st.first, byte) ELSE st.first,
               !.quad_pos = quad_pos, !.leftchar = leftchar, !.pads = 0]

\* one character of the input
B64Char(st, c) ==
    LET v == IndexIn(Base64Alphabet, c, 1) - 1
    IN  IF st.done THEN st
        ELSE IF c = "="
        THEN IF st.quad_pos >= 2
             THEN [st EXCEPT !.pads = st.pads + 1,
                             !.done = st.quad_pos + st.pads + 1 >= 4]
             ELSE st
        ELSE IF v < 0 THEN st
        ELSE IF st.quad_pos = 0
        THEN [st EXCEPT !.quad_pos = 1, !.leftchar = v, !.pads = 0]
        ELSE IF st.quad_pos = 1
        THEN B64Emit(st, st.leftchar * 4 + v \div 16, 2, v % 16)
        ELSE IF st.quad_pos = 2
        THEN B64Emit(st, st.leftchar * 16 + v \div 4, 3, v % 4)
        ELSE B64Emit(st, st.leftchar * 64 + v, 0, 0)

RECURSIVE B64Chars(_, _)
B64Chars(st, s) ==
    IF s = "" THEN st ELSE B64Chars(B64Char(st, Char(s, 1)), SubSeq(s, 2, Len(s)))

\* n times "AAAA": three bytes each, all zero after the first group
B64Zeros(st, n) ==
    IF n = 0 \/ st.done THEN st
    ELSE LET one == B64Chars(st, "AAAA")
         IN  [one EXCEPT !.size = one.size + 3 * (n - 1)]

\* base64.b64decode(text): ok is FALSE where it raises binascii.Error
b64decode(text) ==
    LET st == B64Chars(B64Zeros(B64Chars(B64Start, text.head), text.zeros), text.tail)
    IN  [ok |-> st.done \/ st.quad_pos = 0, size |-> st.size, first |-> st.first]

(***************************************************************************)
(* JSON values, as request.get_json() returns them, and the Python         *)
(* operations validate_request_data applies to them.                       *)
(***************************************************************************)
JsonNull == [type |-> "null"]

JsonNumber(n) == [type |-> "number", value |-> n]

JsonString(text) == [type |-> "string", value |-> text]

JsonArray(items) == [type |-> "array", items |-> items]

\* an object by its keys and the value of its docx_data member
JsonObject(keys, docx_data) == [type |-> "object", keys |-> keys, docx_data |-> docx_data]

\* bool(value)
Truthy(v) ==
    CASE v.type = "null" -> FALSE
      [] v.type = "number" -> v.value # 0
      [] v.type = "string" -> v.value # Text("", 0, "")
      [] v.type = "array" -> v.items # <<>>
      [] v.type = "object" -> v.keys # {}

\* 'docx_data' in data: "raise" where Python raises TypeError
HasDocxData(data) ==
    CASE data.type = "object" -> IF "docx_data" \in data.keys THEN "yes" ELSE "no"
      [] data.type = "array" ->
            IF \E k \in 1..Len(data.items) : data.items[k] = "docx_data"
            THEN "yes" ELSE "no"
      [] data.type = "string" ->
            IF data.value.zeros = 0
               /\ Contains(data.value.head \o data.value.tail, "docx_data")
            THEN "yes" ELSE "no"
      [] OTHER -> "raise"

NoError == [kind |-> "none"]

PDFServiceError(error_code) == [kind |-> "error", success |-> FALSE, error_code |-> error_code]

Raises(exception) == [kind |-> "raise", exception |-> exception]

\* the checks of validate_request_data in the order of the code
validate_request_data(data) ==
    IF ~Truthy(data) THEN PDFServiceError("MISSING_DOCX_DATA")
    ELSE IF HasDocxData(data) = "raise" THEN Raises("TypeError")
    ELSE IF HasDocxData(data) = "no"
    THEN IF data.type = "object" THEN PDFServiceError("MISSING_DOCX_DATA")
         ELSE Raises("AttributeError")
    ELSE IF data.type # "object" THEN Raises("TypeError")
    ELSE IF ~Truthy(data.docx_data) \/ data.docx_data.type # "string"
    THEN PDFServiceError("MISSING_DOCX_DATA")
    ELSE LET docx_bytes == b64decode(data.docx_data.value)
         IN  IF ~docx_bytes.ok THEN PDFServiceError("INVALID_BASE64")
             ELSE IF docx_bytes.size > MAX_FILE_SIZE_BYTES
             THEN PDFServiceError("FILE_TOO_LARGE")
             ELSE IF docx_bytes.first # <<80, 75>>
             THEN PDFServiceError("INVALID_DOCX_FORMAT")
             ELSE NoError

(***************************************************************************)
(* The service as a state machine: the startup check, then requests to     *)
(* /convert-pdf and /convert-pdf-download handled one after the other.     *)
(* A handler runs in steps: the availability gate, validation, creation of *)
(* the temporary files, the external conversion, reading the PDF, and the  *)
(* finally clause.  What the operating system and the converter do is      *)
(* chosen at the step that calls them.                                     *)
(***************************************************************************)
\* most requests the service handles
MaxRequests == 2

\* the parser's state apart from pc and frame, which the handlers use too
documentVars == <<src, blocks, mode, cursor, result, returned>>

\* the number of "AAAA" groups that makes "UEsD" ... "AAA=" decode to
\* exactly MAX_FILE_SIZE_BYTES bytes
LimitZeros == (MAX_FILE_SIZE_BYTES - 5) \div 3

DocxTexts ==
    {Text("", 0, ""), Text("UEsDBA==", 0, ""), Text("UEs=", 0, ""),
     Text("eHg=", 0, ""), Text("UEs", 0, ""), Text("!!!!", 0, ""),
     Text("UEsD", LimitZeros, "AAA="), Text("UEsD", LimitZeros, "AAAA"),
     Text("eHh4", LimitZeros, "AAAA"), Text("UEsD", LimitZeros, "AAA")}

\* a body that is not JSON: request.get_json() raises
NotJson == [type |-> "not_json"]

Bodies ==
    {NotJson, JsonNull, JsonNumber(0), JsonNumber(5), JsonArray(<<>>),
     JsonArray(<<"x">>), JsonArray(<<"docx_data">>),
     JsonString(Text("", 0, "")), JsonString(Text("docx_data", 0, "")),
     JsonObject({}, JsonNull), JsonObject({"other_field"}, JsonNull)}
    \cup {JsonObject({"docx_data"}, v) :
            v \in {JsonNull, JsonNumber(5)} \cup {JsonString(t) : t \in DocxTexts}}

ConvertEndpoints == {"/convert-pdf", "/convert-pdf-download"}

\* the files of a request: the temporary DOCX, the temporary PDF the handler
\* creates, and the PDF the converter writes next to the DOCX
Path(name, id) == [name |-> name, request |-> id]

File(path, content) == [path |-> path, content |-> content]

NoPath == [name |-> "None", request |-> 0]

\* the locals of a conversion handler at its start
HandlerLocals == [temp_docx_path |-> NoPath, temp_pdf_path |-> NoPath]

Exists(path) == \E f \in files : f.path = path

\* os.unlink of the paths that are set
Unlink(fs, paths) == {f \in fs : f.path \notin paths}

ErrorResponse(status, error_code) ==
    [status |-> status, success |-> FALSE, error_code |-> error_code]

Metrics(id, success, error_code) ==
    [request_id |-> id, success |-> success, error_code |-> error_code]

\* LogMetrics of a handler that writes a record for failures only
LogMetricsFailuresOnly(success, error_code) ==
    IF request.endpoint = "/convert-pdf" /\ ~success
    THEN Append(metrics, Metrics(request.id, success, error_code))
    ELSE metrics

\* metrics.log(): only the /convert-pdf handler writes metrics
LogMetrics(success, error_code) ==
    IF request.endpoint = "/convert-pdf"
    THEN Append(metrics, Metrics(request.id, success, error_code))
    ELSE metrics

InitService ==
    /\ ParserIdle
    /\ pc = "startup"
    /\ frame = HandlerLocals
    /\ ServiceIdle

\* create_app: validate_libreoffice()
validate_libreoffice_if_ran(outcome) ==
    CASE outcome = "exit0" -> [LIBREOFFICE_AVAILABLE |-> TRUE, returns |-> TRUE]
      [] outcome = "nonzero" ->
            [LIBREOFFICE_AVAILABLE |-> TRUE, returns |-> FALSE]
      [] OTHER -> [LIBREOFFICE_AVAILABLE |-> FALSE, returns |-> FALSE]

\* validate_libreoffice, by the outcome of the version command: the value
\* it leaves in the global flag and the value it returns
validate_libreoffice(outcome) ==
    CASE outcome = "exit0" -> [LIBREOFFICE_AVAILABLE |-> TRUE, returns |-> TRUE]
      [] outcome = "nonzero" ->
            [LIBREOFFICE_AVAILABLE |-> FALSE, returns |-> FALSE]
      [] outcome = "FileNotFoundError" ->
            [LIBREOFFICE_AVAILABLE |-> FALSE, returns |-> FALSE]
      [] outcome = "TimeoutExpired" ->
            [LIBREOFFICE_AVAILABLE |-> FALSE, returns |-> FALSE]
      [] outcome = "Exception" ->
            [LIBREOFFICE_AVAILABLE |-> FALSE, returns |-> FALSE]

ValidateLibreOffice ==
    /\ pc = "startup"
    /\ \E outcome \in {"exit0", "nonzero", "FileNotFoundError", "TimeoutExpired",
                       "Exception"} :
          /\ LIBREOFFICE_AVAILABLE' =
                validate_libreoffice(outcome).LIBREOFFICE_AVAILABLE
          /\ runs' = Append(runs, [cmd |-> "--version", request |-> 0,
                                   timeout |-> 5, outcome |-> outcome,
                                   returned |->
                                       validate_libreoffice(outcome).returns])
    /\ pc' = "idle"
    /\ UNCHANGED <<documentVars, frame>>
    /\ UNCHANGED <<request, files, response, metrics>>
    /\ UNCHANGED concurrentVars

\* a request arrives and its handler is entered
Receive ==
    /\ pc = "idle"
    /\ \E endpoint \in ConvertEndpoints, body \in Bodies :
          /\ IF request = NoRequest THEN TRUE ELSE request.id < MaxRequests
          /\ request' = [endpoint |-> endpoint, body |-> body,
                         id |-> IF request = NoRequest THEN 1 ELSE request.id + 1]
    /\ response' = NoResponse
    /\ frame' = HandlerLocals
    /\ pc' = "gate"
    /\ UNCHANGED documentVars
    /\ UNCHANGED <<LIBREOFFICE_AVAILABLE, files, runs, metrics>>
    /\ UNCHANGED concurrentVars

\* the decorator of both conversion endpoints: the answer it gives itself,
\* NoResponse when it calls the handler
require_libreoffice_convert_only(endpoint) ==
    IF ~LIBREOFFICE_AVAILABLE /\ endpoint = "/convert-pdf"
    THEN ErrorResponse(503, "LIBREOFFICE_UNAVAILABLE")
    ELSE NoResponse

require_libreoffice(endpoint) ==
    IF ~LIBREOFFICE_AVAILABLE
    THEN ErrorResponse(503, "LIBREOFFICE_UNAVAILABLE")
    ELSE NoResponse

Gate ==
    /\ pc = "gate"
    /\ response' = require_libreoffice(request.endpoint)
    /\ pc' = IF response' = NoResponse THEN "validate" ELSE "idle"
    /\ UNCHANGED <<documentVars, frame>>
    /\ UNCHANGED <<LIBREOFFICE_AVAILABLE, request, files, runs, metrics>>
    /\ UNCHANGED concurrentVars

\* request.get_json() and validate_request_data, with the handler's answer
\* to a validation error and its "except Exception" for what they raise
Validate ==
    /\ pc = "validate"
    /\ LET v == IF request.body = NotJson THEN Raises("BadRequest")
                ELSE validate_request_data(request.body)
       IN  IF v.kind = "error"
           THEN /\ response' = ErrorResponse(400, v.error_code)
                /\ metrics' = LogMetrics(FALSE, v.error_code)
                /\ pc' = "finally"
           ELSE IF v.kind = "raise"
           THEN /\ response' = ErrorResponse(500, "INTERNAL_ERROR")
                /\ metrics' = LogMetrics(FALSE, "INTERNAL_ERROR")
                /\ pc' = "finally"
           ELSE /\ response' = response
                /\ metrics' = metrics
                /\ pc' = "tempfiles"
    /\ UNCHANGED <<documentVars, frame>>
    /\ UNCHANGED <<LIBREOFFICE_AVAILABLE, request, files, runs>>
    /\ UNCHANGED concurrentVars

\* "Create temporary files": the DOCX is created and written, then the PDF
\* is created; a step that fails raises into "except Exception"
CreateTempFiles ==
    /\ pc = "tempfiles"
    /\ \E outcome \in {"created", "docx_create_fails", "docx_write_fails",
                       "pdf_create_fails"} :
          LET docx == Path("docx", request.id)
              placeholder == Path("placeholder", request.id)
          IN  /\ files' = files
                    \cup (IF outcome = "docx_create_fails" THEN {}
                          ELSE {File(docx, "docx")})
                    \cup (IF outcome = "created" THEN {File(placeholder, "")} ELSE {})
              /\ frame' = [temp_docx_path |->
                               IF outcome \in {"created", "pdf_create_fails"}
                               THEN docx ELSE NoPath,
                           temp_pdf_path |->
                               IF outcome = "created" THEN placeholder ELSE NoPath]
              /\ IF outcome = "created"
                 THEN /\ pc' = "convert"
                      /\ response' = response
                      /\ metrics' = metrics
                 ELSE /\ pc' = "finally"
                      /\ response' = ErrorResponse(500, "INTERNAL_ERROR")
                      /\ metrics' = LogMetrics(FALSE, "INTERNAL_ERROR")
    /\ UNCHANGED documentVars
    /\ UNCHANGED <<LIBREOFFICE_AVAILABLE, request, runs>>
    /\ UNCHANGED concurrentVars

\* the conversion went through: exit code 0 and the PDF is where it is expected
\* the printable ASCII characters from the space (code 32) to the
\* underscore (95), and from "a" (97) to the tilde (126)
AsciiLow ==
    " !\"#$%&'()*+,-./" \o Digits \o ":;<=>?@" \o UpperLetters \o "[\\]^_"

AsciiHigh == LowerLetters \o "{|}~"

\* the byte of a character
Ord(c) ==
    IF IndexIn(AsciiLow, c, 1) > 0 THEN IndexIn(AsciiLow, c, 1) + 31
    ELSE IndexIn(AsciiHigh, c, 1) + 96

\* base64.b64encode(...).decode('utf-8'): three bytes give four characters
\* of the alphabet, a last group of one or two bytes is padded with "="
RECURSIVE b64encode(_)
b64encode(bytes) ==
    IF bytes = "" THEN ""
    ELSE LET n == Min(3, Len(bytes))
             b1 == Ord(Char(bytes, 1))
             b2 == IF n >= 2 THEN Ord(Char(bytes, 2)) ELSE 0
             b3 == IF n = 3 THEN Ord(Char(bytes, 3)) ELSE 0
         IN  Char(Base64Alphabet, b1 \div 4 + 1)
             \o Char(Base64Alphabet, (b1 % 4) * 16 + b2 \div 16 + 1)
             \o (IF n >= 2 THEN Char(Base64Alphabet, (b2 % 16) * 4 + b3 \div 64 + 1)
                 ELSE "=")
             \o (IF n = 3 THEN Char(Base64Alphabet, (b3 % 64) + 1) ELSE "=")
             \o b64encode(SubSeq(bytes, 4, Len(bytes)))

\* what the converter can leave at the output path: nothing, or a file
\* with these bytes
NoOutput == "nothing"

PdfOutputs == {"%PDF", "%PDF-", "%PDF-1", "%PD", "junk", ""}

ConversionSucceededIfWritten(outcome, written) == written # "nothing"

ConversionSucceeded(outcome, written) == outcome = "exit0" /\ written # "nothing"

\* subprocess.run of the converter with the timeout, the test of its result,
\* and "except Exception" around them; /convert-pdf-download then sends the file
Convert ==
    /\ pc = "convert"
    /\ \E outcome \in {"exit0", "nonzero", "TimeoutExpired", "FileNotFoundError"},
          written \in {NoOutput} \cup PdfOutputs :
          LET output == Path("output", request.id)
          IN  /\ outcome = "FileNotFoundError" => written = "nothing"
              /\ runs' = Append(runs, [cmd |-> "--convert-to", request |-> request.id,
                                       timeout |-> CONVERSION_TIMEOUT_SECONDS,
                                       outcome |-> outcome])
              /\ files' = IF written = "nothing" THEN files
                          ELSE files \cup {File(output, written)}
              /\ IF ConversionSucceeded(outcome, written)
                 THEN /\ frame' = [frame EXCEPT !.temp_pdf_path = output]
                      /\ metrics' = metrics
                      /\ IF request.endpoint = "/convert-pdf"
                         THEN /\ pc' = "read"
                              /\ response' = response
                         ELSE /\ pc' = "finally"
                              /\ response' = [status |-> 200, sent |-> output]
                 ELSE /\ frame' = frame
                      /\ metrics' = LogMetrics(FALSE, "CONVERSION_FAILED")
                      /\ pc' = "finally"
                      /\ response' = ErrorResponse(500, "CONVERSION_FAILED")
    /\ UNCHANGED documentVars
    /\ UNCHANGED <<LIBREOFFICE_AVAILABLE, request>>
    /\ UNCHANGED concurrentVars

\* the bytes of the file at a path
Read(path) == (CHOOSE f \in files : f.path = path).content

\* a format test that looks at three bytes only
IsPdfShortMagic(pdf_bytes) == StartsWith(pdf_bytes, "%PD")

\* pdf_bytes.startswith(b'%PDF')
IsPdf(pdf_bytes) == StartsWith(pdf_bytes, "%PDF")

\* "Read the generated PDF" (the open or the read can fail), the test of
\* the format, "except Exception" around them, and the success response
\* of /convert-pdf
ReadPdf ==
    /\ pc = "read"
    /\ \E outcome \in {"read", "OSError"} :
          LET pdf_bytes == Read(frame.temp_pdf_path)
          IN  IF outcome = "read" /\ IsPdf(pdf_bytes)
              THEN /\ response' = [status |-> 200, success |-> TRUE,
                                   pdf_data |-> b64encode(pdf_bytes),
                                   size |-> Len(pdf_bytes)]
                   /\ metrics' = LogMetrics(TRUE, "NONE")
              ELSE /\ response' = ErrorResponse(500, "CONVERSION_FAILED")
                   /\ metrics' = LogMetrics(FALSE, "CONVERSION_FAILED")
    /\ pc' = "finally"
    /\ UNCHANGED <<documentVars, frame>>
    /\ UNCHANGED <<LIBREOFFICE_AVAILABLE, request, files, runs>>
    /\ UNCHANGED concurrentVars

\* the finally clause: /convert-pdf unlinks the two paths it holds,
\* /convert-pdf-download only logs; then the response goes out
Finally ==
    /\ pc = "finally"
    /\ files' = IF request.endpoint = "/convert-pdf"
                THEN Unlink(files, {frame.temp_docx_path, frame.temp_pdf_path})
                ELSE files
    /\ pc' = "idle"
    /\ UNCHANGED <<documentVars, frame>>
    /\ UNCHANGED <<LIBREOFFICE_AVAILABLE, request, response, runs, metrics>>
    /\ UNCHANGED concurrentVars

NextService ==
    \/ ValidateLibreOffice
    \/ Receive
    \/ Gate
    \/ Validate
    \/ CreateTempFiles
    \/ Convert
    \/ ReadPdf
    \/ Finally

\* the conversion service from its start
SpecService == InitService /\ [][NextService]_vars

(***************************************************************************)
(* C27: while the availability flag is false, every request to a           *)
(* conversion endpoint, whatever its body, is answered 503 with success    *)
(* false and LIBREOFFICE_UNAVAILABLE, and is neither validated nor         *)
(* converted: no temporary file is created, the converter is not run.      *)
(***************************************************************************)
C27_Rejected ==
    (~LIBREOFFICE_AVAILABLE /\ request # NoRequest /\ pc # "gate") =>
        /\ pc = "idle"
        /\ response.status = 503
        /\ response.success = FALSE
        /\ response.error_code = "LIBREOFFICE_UNAVAILABLE"

C27_NothingDone ==
    (~LIBREOFFICE_AVAILABLE /\ pc # "startup") =>
        /\ pc \in {"idle", "gate"}
        /\ files = {}
        /\ metrics = <<>>
        /\ \A k \in 1..Len(runs) : runs[k].cmd # "--convert-to"

C27_UnavailableAnswers503 == C27_Rejected /\ C27_NothingDone

\* the second request with a valid DOCX, to the download endpoint, rejected
C27_Witness ==
    /\ ~LIBREOFFICE_AVAILABLE
    /\ request # NoRequest
    /\ request.id = 2
    /\ request.endpoint = "/convert-pdf-download"
    /\ request.body = JsonObject({"docx_data"}, JsonString(Text("UEsDBA==", 0, "")))
    /\ response.status = 503

(***************************************************************************)
(* C28: validate_request_data accepts exactly the non-empty objects whose  *)
(* docx_data is a non-empty string that decodes to at most 50 MB starting  *)
(* with 'PK'; any other body gets the error of the first failing check, in *)
(* the order MISSING_DOCX_DATA, INVALID_BASE64, FILE_TOO_LARGE,            *)
(* INVALID_DOCX_FORMAT, and /convert-pdf answers it with status 400        *)
(* without running the converter.                                          *)
(***************************************************************************)
C28_HasDocxString(body) ==
    /\ body.type = "object"
    /\ "docx_data" \in body.keys
    /\ body.docx_data.type = "string"
    /\ body.docx_data.value # Text("", 0, "")

C28_FirstFailingCheck(body) ==
    IF ~C28_HasDocxString(body) THEN "MISSING_DOCX_DATA"
    ELSE LET bytes == b64decode(body.docx_data.value)
         IN  IF ~bytes.ok THEN "INVALID_BASE64"
             ELSE IF bytes.size > 50 * 1024 * 1024 THEN "FILE_TOO_LARGE"
             ELSE IF bytes.first # <<80, 75>> THEN "INVALID_DOCX_FORMAT"
             ELSE "NONE"

C28_Validated ==
    /\ request # NoRequest
    /\ request.endpoint = "/convert-pdf"
    /\ request.body # NotJson
    /\ LIBREOFFICE_AVAILABLE
    /\ pc \notin {"gate", "validate"}

C28_ValidationOrder ==
    C28_Validated =>
        IF C28_FirstFailingCheck(request.body) = "NONE"
        THEN response.status # 400
        ELSE /\ response.status = 400
             /\ response.error_code = C28_FirstFailingCheck(request.body)
             /\ \A k \in 1..Len(runs) : runs[k].request # request.id

(***************************************************************************)
(* C29: a conversion that exceeds the timeout makes the external call fail *)
(* and the handler answer with a failure (not 200, success false); the     *)
(* converter is run at most once for a request, on every path.             *)
(***************************************************************************)
C29_RunsOf(id) == {k \in 1..Len(runs) : runs[k].request = id}

C29_TimedOut ==
    /\ request # NoRequest
    /\ \E k \in C29_RunsOf(request.id) : runs[k].outcome = "TimeoutExpired"

C29_TimeoutIsFailure ==
    C29_TimedOut =>
        /\ response.status = 500
        /\ response.success = FALSE
        /\ response.error_code = "CONVERSION_FAILED"
        /\ pc \in {"finally", "idle"}

C29_AtMostOneRun ==
    \A id \in 1..MaxRequests : Cardinality(C29_RunsOf(id)) <= 1

C30_FilesOf(id) == {f \in files : f.path.request = id}

C30_TempFilesCleanedUp ==
    (request # NoRequest /\ request.endpoint = "/convert-pdf" /\ pc = "idle") =>
        C30_FilesOf(request.id) = {}

(***************************************************************************)
(* Concurrent parse calls: document_parser.parse_document called from two  *)
(* request-handling threads.  Each call creates an IEEEDocumentParser,     *)
(* keeps its document, block list, cursor and record in locals, and a PDF  *)
(* call writes and then reads its instance's total_pages.  A step of the   *)
(* model is a step of one of the calls.                                    *)
(***************************************************************************)
MaxCallBlocks == 2

Callers == 1..2

CallTexts == {AbstractText, BodyText}

\* the documents the calls parse: a PDF of one or two pages, or a DOCX
\* (which has no page count)
PageCounts(s) == IF s = "pdf" THEN {1, 2} ELSE {0}

CallBlocks(s) ==
    IF s = "pdf" THEN {PdfBlock(t, SizeOf(t)) : t \in CallTexts}
    ELSE {Para(t, SizeOf(t), FALSE, FALSE) : t \in CallTexts}

\* IEEEDocumentParser.__init__
IEEEDocumentParser == [current_page |-> 0, total_pages |-> 0]

\* parse_document at the module's level constructs the parser a call uses:
\* the instances afterwards, and the index of the call's one
ConstructShared(instances) ==
    [parsers |-> IF instances = <<>> THEN <<IEEEDocumentParser>> ELSE instances,
     parser |-> 1]

Construct(instances) ==
    [parsers |-> Append(instances, IEEEDocumentParser),
     parser |-> Len(instances) + 1]

Call(s, bs, pages) ==
    [src |-> s, blocks |-> bs, pages |-> pages, pc |-> "parse_document",
     frame |-> HandlerLocals, cursor |-> 0, result |-> _init_result,
     parser |-> 0, logged |-> 0]

InitConcurrent ==
    /\ ParserIdle
    /\ pc = "concurrent"
    /\ frame = HandlerLocals
    /\ LIBREOFFICE_AVAILABLE = FALSE
    /\ request = NoRequest
    /\ files = {}
    /\ response = NoResponse
    /\ runs = <<>>
    /\ metrics = <<>>
    /\ parsers = <<>>
    /\ \E s1 \in {"pdf", "docx"}, s2 \in {"pdf", "docx"} :
          \E b1 \in SeqsUpTo(CallBlocks(s1), MaxCallBlocks),
             b2 \in SeqsUpTo(CallBlocks(s2), MaxCallBlocks),
             p1 \in PageCounts(s1), p2 \in PageCounts(s2) :
             calls = <<Call(s1, b1, p1), Call(s2, b2, p2)>>

\* parse_document (module level): parser = IEEEDocumentParser()
CallConstruct(c) ==
    /\ calls[c].pc = "parse_document"
    /\ LET made == Construct(parsers)
       IN  /\ parsers' = made.parsers
           /\ calls' = [calls EXCEPT ![c].parser = made.parser,
                                     ![c].pc = "_parse"]
    /\ UNCHANGED parserVars
    /\ UNCHANGED serviceVars

\* _parse_pdf: self.total_pages = len(pdf.pages); _parse_docx opens the
\* document, writes nothing to the instance and calls the first stage
CallOpen(c) ==
    /\ calls[c].pc = "_parse"
    /\ IF calls[c].src = "pdf"
       THEN /\ parsers' = [parsers EXCEPT
                              ![calls[c].parser].total_pages = calls[c].pages]
            /\ calls' = [calls EXCEPT ![c].pc = "log"]
       ELSE /\ parsers' = parsers
            /\ calls' = [calls EXCEPT ![c].pc = "title",
                                      ![c].frame = TitleInit(0)]
    /\ UNCHANGED parserVars
    /\ UNCHANGED serviceVars

\* _parse_pdf: logger.info(f"PDF has {self.total_pages} pages"), then the
\* block list is built and the first stage called
CallLog(c) ==
    /\ calls[c].pc = "log"
    /\ calls' = [calls EXCEPT
                    ![c].logged = parsers[calls[c].parser].total_pages,
                    ![c].pc = "title",
                    ![c].frame = TitleInit(0)]
    /\ UNCHANGED parsers
    /\ UNCHANGED parserVars
    /\ UNCHANGED serviceVars

\* one iteration of the loop of the stage the call is in
CallIterate(c) ==
    /\ calls[c].pc \in StageNames
    /\ ~LoopDoneOf(calls[c].pc, calls[c].blocks, calls[c].frame)
    /\ calls' = [calls EXCEPT
                    ![c].frame = StepOf(calls[c].src, calls[c].pc,
                                        calls[c].blocks, calls[c].frame)]
    /\ UNCHANGED parsers
    /\ UNCHANGED parserVars
    /\ UNCHANGED serviceVars

\* the stage returns and the call assigns the value and the cursor, then
\* calls the next stage or returns the record
CallReturn(c) ==
    /\ calls[c].pc \in StageNames
    /\ LoopDoneOf(calls[c].pc, calls[c].blocks, calls[c].frame)
    /\ LET stage == calls[c].pc
           next_cursor == CursorOf(stage, calls[c].frame, calls[c].cursor)
       IN  calls' = [calls EXCEPT
                ![c].result = [calls[c].result EXCEPT
                                  ![stage] = ValueOf(stage, calls[c].frame)],
                ![c].cursor = next_cursor,
                ![c].pc = NextStage(stage),
                ![c].frame = IF NextStage(stage) = "done" THEN calls[c].frame
                             ELSE InitOf(NextStage(stage), next_cursor)]
    /\ UNCHANGED parsers
    /\ UNCHANGED parserVars
    /\ UNCHANGED serviceVars

NextConcurrent ==
    \E c \in Callers :
        \/ CallConstruct(c)
        \/ CallOpen(c)
        \/ CallLog(c)
        \/ CallIterate(c)
        \/ CallReturn(c)

\* two parse calls running concurrently
SpecConcurrent == InitConcurrent /\ [][NextConcurrent]_vars

(***************************************************************************)
(* C31: concurrent parse calls are safe without locking: the calls never   *)
(* share a parser instance, the page count a call reads from its instance  *)
(* is the one that call wrote, and under every interleaving a call that    *)
(* has returned holds the record the six stages return for its own blocks  *)
(* when run alone.                                                         *)
(***************************************************************************)
C31_OwnInstance ==
    \A c \in Callers, d \in Callers :
        (c # d /\ calls[c].parser # 0 /\ calls[d].parser # 0) =>
            calls[c].parser # calls[d].parser

C31_ReadsOwnWrites ==
    \A c \in Callers :
        (calls[c].src = "pdf" /\ calls[c].pc \in StageNames \cup {"done"}) =>
            calls[c].logged = calls[c].pages

C31_SameAsAlone ==
    \A c \in Callers :
        calls[c].pc = "done" =>
            calls[c].result = C22_ParseOf(calls[c].src, calls[c].blocks)

C31_ConcurrentCallsSafe ==
    calls # <<>> => C31_OwnInstance /\ C31_ReadsOwnWrites /\ C31_SameAsAlone

\* two PDF calls with different page counts have both returned, with
\* different records
C31_Witness ==
    /\ calls # <<>>
    /\ calls[1].pc = "done" /\ calls[2].pc = "done"
    /\ calls[1].src = "pdf" /\ calls[2].src = "pdf"
    /\ calls[1].pages # calls[2].pages
    /\ calls[1].result # calls[2].result
    /\ calls[1].result.abstract # ""

(***************************************************************************)
(* C32: after a call of validate_libreoffice the global flag equals the    *)
(* value the call returned, which is true exactly when the version command *)
(* ran and exited with code 0; no request handler changes the flag, so     *)
(* over any sequence of requests it keeps the value of the startup check.  *)
(***************************************************************************)
C32_Checks == {k \in 1..Len(runs) : runs[k].cmd = "--version"}

C32_FlagIsReturned ==
    \A k \in C32_Checks :
        /\ runs[k].returned = (runs[k].outcome = "exit0")
        /\ (\A j \in C32_Checks : j <= k) =>
              LIBREOFFICE_AVAILABLE = runs[k].returned

C32_HandlersKeepFlag ==
    [][pc # "startup" => LIBREOFFICE_AVAILABLE' = LIBREOFFICE_AVAILABLE]_vars

C32_FlagIsStartupCheck == []C32_FlagIsReturned /\ C32_HandlersKeepFlag

\* the version command exited with code 0 at startup, and the second request
\* since has been converted and answered
C32_Witness ==
    /\ pc = "idle"
    /\ request # NoRequest
    /\ request.id = 2
    /\ response.status = 200
    /\ \E k \in C32_Checks : runs[k].outcome = "exit0"
    /\ LIBREOFFICE_AVAILABLE

(***************************************************************************)
(* C33: a bounded stage started at cursor s on n blocks (s <= n) reads     *)
(* only blocks below min(s + W, n), W = 5, 10, 30, 20 for the title,       *)
(* author, abstract and keywords stage: every iteration is on an index     *)
(* inside the window, the value and the cursor returned are those of the   *)
(* same call on the blocks cut at the window's end, and the cursor is at   *)
(* most the window's end (so the abstract ends there without a stop).      *)
(***************************************************************************)
C33_Bounded == {"title", "authors", "abstract", "keywords"}

C33_WindowEnd(stage, bs, from) == Min(from + WindowOf(stage), Len(bs))

C33_IteratesInside ==
    [][(pc \in C33_Bounded /\ pc' = pc /\ frame' # frame) =>
          /\ frame.i >= frame.start_index
          /\ frame.i < C33_WindowEnd(pc, blocks, frame.start_index)]_vars

C33_SameOnCutBlocks ==
    (returned \in C33_Bounded /\ frame.start_index <= Len(blocks)) =>
        LET end == C33_WindowEnd(returned, blocks, frame.start_index)
            cut == RunStage(src, returned, SubSeq(blocks, 1, end),
                            InitOf(returned, frame.start_index))
        IN  /\ cursor <= end
            /\ cursor = cut.current_index
            /\ result[returned] = ValueOf(returned, cut)

C34_Value(c) == IF c = "=" THEN 0 ELSE IndexIn(Base64Alphabet, c, 1) - 1

\* e is the base64 encoding of the bytes: every four characters hold the 24
\* bits of three bytes, a shorter last group is filled with zero bits and
\* marked with "="
RECURSIVE C34_Encodes(_, _)
C34_Encodes(e, bytes) ==
    IF bytes = "" THEN e = ""
    ELSE LET n == Min(3, Len(bytes))
             byte(k) == IF k <= n THEN Ord(Char(bytes, k)) ELSE 0
         IN  /\ Len(e) >= 4
             /\ \A k \in 1..4 :
                   IF k > n + 1 THEN Char(e, k) = "="
                   ELSE IndexIn(Base64Alphabet, Char(e, k), 1) > 0
             /\ C34_Value(Char(e, 1)) * 262144 + C34_Value(Char(e, 2)) * 4096
                    + C34_Value(Char(e, 3)) * 64 + C34_Value(Char(e, 4))
                = byte(1) * 65536 + byte(2) * 256 + byte(3)
             /\ C34_Encodes(SubSeq(e, 5, Len(e)), SubSeq(bytes, 4, Len(bytes)))

C34_Answered ==
    request # NoRequest /\ request.endpoint = "/convert-pdf" /\ pc = "finally"

C34_Output == Path("output", request.id)

C34_Converted ==
    /\ \E k \in C29_RunsOf(request.id) : runs[k].outcome = "exit0"
    /\ Exists(C34_Output)
    /\ StartsWith(Read(C34_Output), "%PDF")

C34_SuccessOnlyIfConverted ==
    (C34_Answered /\ response.status = 200) =>
        /\ response.success
        /\ C34_Converted
        /\ C34_Encodes(response.pdf_data, Read(C34_Output))
        /\ response.size = Len(Read(C34_Output))

C34_FailureIsConversionFailed ==
    (C34_Answered /\ C29_RunsOf(request.id) # {} /\ ~C34_Converted) =>
        /\ response.status = 500
        /\ response.success = FALSE
        /\ response.error_code = "CONVERSION_FAILED"
        /\ "pdf_data" \notin DOMAIN response

C34_SuccessIsConvertedPdf ==
    C34_SuccessOnlyIfConverted /\ C34_FailureIsConversionFailed

\* a success whose PDF of five bytes is encoded with one padding character
C34_Witness ==
    /\ C34_Answered
    /\ response.status = 200
    /\ Read(C34_Output) = "%PDF-"
    /\ response.pdf_data = "JVBERi0="
    /\ response.size = 5

(***************************************************************************)
(* C35: after the References header the reference stage returns one        *)
(* reference per non-blank block that matches the [N] marker pattern,      *)
(* whatever the numbers: the list only grows while the stage runs (no      *)
(* entry is replaced, a repeated number gives two entries with the same    *)
(* order), the last reference is flushed at the end of the input, and the  *)
(* non-marker blocks between the header and the first marker are in no     *)
(* reference.                                                              *)
(***************************************************************************)
C35_Markers(bs, s) == Ascending(C10_MarkersAfterHeader(bs, s))

\* the list the markers give: one entry per marker block, in scan order
C35_OnePerMarker(bs, s) ==
    LET markers == C35_Markers(bs, s)
    IN  [k \in 1..Len(markers) |->
            [text |-> C12_MergedText(bs, s, markers[k]),
             order |-> C10_MarkerNumber(StrippedText(bs, markers[k])) - 1]]

C35_CountsMarkers ==
    StageReturned("references") =>
        /\ Len(result.references) =
              Cardinality(C10_MarkersAfterHeader(blocks, frame.start_index))
        /\ result.references = C35_OnePerMarker(blocks, frame.start_index)

C35_NeverReplaces ==
    [][(pc = "references" /\ pc' = pc) =>
          /\ Len(frame'.references) >= Len(frame.references)
          /\ SubSeq(frame'.references, 1, Len(frame.references)) =
                frame.references]_vars

C35_OneReferencePerMarker == []C35_CountsMarkers /\ C35_NeverReplaces

\* a block between the header and the first marker was dropped and the same
\* marker number came twice: two entries with the same order
C35_Witness ==
    /\ StageReturned("references")
    /\ Len(blocks) = 4
    /\ frame.start_index = 0
    /\ StrippedText(blocks, 1) = BodyText
    /\ Len(result.references) = 2
    /\ result.references[1].order = result.references[2].order
    /\ result.references[1].text = C10_AfterMarker(MarkerText)

(***************************************************************************)
(* C36: the abstract and the keywords stage skip the blocks they scan      *)
(* before their header.  When the header is found in the window at an      *)
(* index h above the start cursor, the cursor returned is above h and the  *)
(* record of the parse owes nothing to the blocks in [start, h): the       *)
(* fields of the earlier stages are those of the blocks cut at start, the  *)
(* fields from this stage on are those of the blocks with [start, h)       *)
(* emptied.  When no header is in the window the cursor returned is the    *)
(* start cursor, so the next stage starts on those blocks.                 *)
(***************************************************************************)
C36_Headers(stage, bs, from) ==
    IF stage = "abstract" THEN C18_Headers(bs, from) ELSE C20_Headers(bs, from)

C36_Empty(s) == IF s = "pdf" THEN PdfBlock("", 10) ELSE Para("", 10, FALSE, FALSE)

\* the blocks with those at the indexes from..(to - 1) emptied
C36_Emptied(s, bs, from, to) ==
    [k \in 1..Len(bs) |-> IF from < k /\ k <= to THEN C36_Empty(s) ELSE bs[k]]

C36_SkipsToHeader ==
    [][(pc \in {"abstract", "keywords"} /\ returned' = pc /\ returned # pc) =>
          LET headers == C36_Headers(pc, blocks, frame.start_index)
          IN  /\ frame.start_index = cursor
              /\ headers # {} => cursor' > MinOf(headers)
              /\ headers = {} => cursor' = cursor]_vars

\* the record of the stages from the abstract stage on, started at cursor c
C36_FromAbstract(s, bs, c) ==
    LET abstract == RunStage(s, "abstract", bs, AbstractInit(c))
        kw == RunStage(s, "keywords", bs, KeywordsInit(abstract.current_index))
        sec == RunStage(s, "sections", bs, SectionsInit(kw.current_index))
        ref == RunStage(s, "references", bs, ReferencesInit(sec.current_index))
    IN  [abstract |-> AbstractValue(abstract), keywords |-> KeywordsValue(kw),
         sections |-> SectionsValue(sec), references |-> ReferencesValue(ref)]

\* the cursor the keywords stage of the parse is given
C36_CursorBeforeKeywords ==
    RunStage(src, "abstract", blocks,
             AbstractInit(C19_CursorBeforeAbstract)).current_index

C36_AbstractSkipContributesNothing ==
    LET start == C19_CursorBeforeAbstract
        headers == C18_Headers(blocks, start)
    IN  (headers # {} /\ MinOf(headers) > start) =>
            LET cut == C22_ParseOf(src, SubSeq(blocks, 1, start))
                rest == C36_FromAbstract(
                            src, C36_Emptied(src, blocks, start, MinOf(headers)),
                            start)
            IN  result = [title |-> cut.title, authors |-> cut.authors,
                          abstract |-> rest.abstract, keywords |-> rest.keywords,
                          sections |-> rest.sections,
                          references |-> rest.references]

C36_KeywordsSkipContributesNothing ==
    LET start == C36_CursorBeforeKeywords
        headers == C20_Headers(blocks, start)
    IN  (headers # {} /\ MinOf(headers) > start) =>
            LET cut == C22_ParseOf(src, SubSeq(blocks, 1, start))
                emptied == C36_Emptied(src, blocks, start, MinOf(headers))
                kw == RunStage(src, "keywords", emptied, KeywordsInit(start))
                sec == RunStage(src, "sections", emptied,
                                SectionsInit(kw.current_index))
                ref == RunStage(src, "references", emptied,
                                ReferencesInit(sec.current_index))
            IN  result = [title |-> cut.title, authors |-> cut.authors,
                          abstract |-> cut.abstract,
                          keywords |-> KeywordsValue(kw),
                          sections |-> SectionsValue(sec),
                          references |-> ReferencesValue(ref)]

C36_SkippedContributeNothing ==
    (mode = "pipeline" /\ pc = "done") =>
        C36_AbstractSkipContributesNothing /\ C36_KeywordsSkipContributesNothing

C36_SkippedBlocksAreDropped == C36_SkipsToHeader /\ []C36_SkippedContributeNothing

\* a section header before the Abstract header was skipped by the abstract
\* stage: the parse has an abstract and no section
C36_Witness ==
    /\ mode = "pipeline"
    /\ pc = "done"
    /\ Len(blocks) >= 3
    /\ StrippedText(blocks, 0) = HeaderText
    /\ C19_CursorBeforeAbstract = 0
    /\ C18_Headers(blocks, 0) # {}
    /\ MinOf(C18_Headers(blocks, 0)) = 1
    /\ result.abstract # ""
    /\ result.sections = <<>>

(***************************************************************************)
(* C37: a /convert-pdf request that passed the LibreOffice gate has        *)
(* written exactly one metrics record when its response is ready, on every *)
(* path, and none before; the record's success field is true exactly when  *)
(* the status is 200.  A request rejected by the gate writes none, and a   *)
(* record once written is never changed.                                   *)
(***************************************************************************)
C37_RecordsOf(id) == {k \in 1..Len(metrics) : metrics[k].request_id = id}

C37_ConvertRequest == request # NoRequest /\ request.endpoint = "/convert-pdf"

C37_OneRecordPerResponse ==
    C37_ConvertRequest =>
        IF pc \in {"finally", "idle"} /\ response.status # 503
        THEN /\ Cardinality(C37_RecordsOf(request.id)) = 1
             /\ \A k \in C37_RecordsOf(request.id) :
                   metrics[k].success = (response.status = 200)
        ELSE C37_RecordsOf(request.id) = {}

C37_RecordsKept ==
    [][/\ Len(metrics') >= Len(metrics)
       /\ SubSeq(metrics', 1, Len(metrics)) = metrics
       /\ Len(metrics') <= Len(metrics) + 1]_vars

C37_ExactlyOneMetricsRecord == []C37_OneRecordPerResponse /\ C37_RecordsKept

\* a converted request and then one that raised an unexpected error each
\* left one record
C37_Witness ==
    /\ C37_ConvertRequest
    /\ pc = "idle"
    /\ request.id = 2
    /\ response.status = 500
    /\ Len(metrics) = 2
    /\ metrics[1].success
    /\ metrics[1].request_id = 1
    /\ metrics[2].error_code = "INTERNAL_ERROR"

\* the service with the startup check and every handler run to its end: a
\* step of the server that can be taken is taken (Validate is enabled
\* exactly at pc = "validate" and always leaves it, so weak fairness of it
\* is that the handler does not stay there); requests need not arrive
SpecServiceFair ==
    /\ InitService
    /\ [][NextService]_vars
    /\ WF_vars(ValidateLibreOffice)
    /\ WF_vars(Gate)
    /\ []<>(pc # "validate")
    /\ WF_vars(CreateTempFiles)
    /\ WF_vars(Convert)
    /\ WF_vars(ReadPdf)
    /\ WF_vars(Finally)

(***************************************************************************)
(* C38 (as stated): the temporary files of /convert-pdf-download are       *)
(* cleaned up after the download completes: whenever a request to that     *)
(* endpoint holds temporary files, on the success path and on every        *)
(* failure path, all of them are eventually deleted.                       *)
(***************************************************************************)
C38_HoldsFiles(id) ==
    /\ request # NoRequest
    /\ request.endpoint = "/convert-pdf-download"
    /\ request.id = id
    /\ C30_FilesOf(id) # {}

C38_DownloadFilesDeleted ==
    \A id \in 1..MaxRequests : C38_HoldsFiles(id) ~> (C30_FilesOf(id) = {})

(***************************************************************************)
(* C39: the author, abstract, keywords, section and reference stages are   *)
(* source-agnostic: on the same sequence of texts, with no embedded        *)
(* picture, the PDF and the DOCX variant of a stage started at the same    *)
(* cursor return the same value and the same cursor.                       *)
(***************************************************************************)
C39_Stages == {"authors", "abstract", "keywords", "sections", "references"}

C39_OtherSource(s) == IF s = "pdf" THEN "docx" ELSE "pdf"

\* the same texts as blocks of the other source
C39_AsOtherSource(s, bs) ==
    [k \in 1..Len(bs) |->
        IF s = "pdf" THEN Para(bs[k].text, bs[k].size, FALSE, FALSE)
        ELSE PdfBlock(bs[k].text, bs[k].runs[1].size)]

C39_NoPictures(s, bs) == s = "docx" => \A k \in 1..Len(bs) : ~bs[k].pic

C39_SourceAgnostic ==
    \A stage \in C39_Stages :
        (StageReturned(stage) /\ C39_NoPictures(src, blocks)) =>
            LET other == RunStage(C39_OtherSource(src), stage,
                                  C39_AsOtherSource(src, blocks),
                                  InitOf(stage, frame.start_index))
            IN  /\ result[stage] = ValueOf(stage, other)
                /\ cursor = CursorOf(stage, other, cursor)
                /\ stage # "references" => cursor = other.current_index

\* the DOCX section stage returned a section with two content blocks, the
\* cursor on the References paragraph
C39_Witness ==
    /\ StageReturned("sections")
    /\ src = "docx"
    /\ C39_NoPictures(src, blocks)
    /\ Len(result.sections) = 1
    /\ Len(result.sections[1].contentBlocks) = 2
    /\ cursor = 3

====
